---------------------------- MODULE Spec2Model ----------------------------
(***************************************************************************)
(* avr-libserial: software UART for ATTinyx5 (src/unnamed/part_001 with    *)
(* its header src/unnamed/part_007).                                       *)
(*                                                                         *)
(* The model has one foreground thread (the caller of the public API,      *)
(* stepping one shared-memory access at a time) and two interrupt service  *)
(* routines that run to completion (AVR clears the global interrupt flag   *)
(* on ISR entry): ISR(PCINT0_vect) and ISR(TIM1_COMPA_vect).               *)
(*                                                                         *)
(* Bytes are integers 0..255; a pin level is 0 or 1.  The connection       *)
(* state bitset is a set of bit names.  A buffer's data pointer is "NULL"  *)
(* or names its malloc'ed block; the blocks are rxd and txd, arrays whose  *)
(* index 0..SIZE-1 is the allocation and whose index SIZE is the byte      *)
(* that follows it in memory.                                              *)
(***************************************************************************)
EXTENDS Integers, Sequences, FiniteSets

(***************************************************************************)
(* Bounds of the model.  The two buffer sizes are 64 in the source         *)
(* (part_007:19-20); they are scaled down so that "buffer full" happens.   *)
(***************************************************************************)
RX_BUFFER_SIZE == 2
TX_BUFFER_SIZE == 2
MaxPut == 3
MaxLoopPut == 2
MaxFrames == 2
MaxSendLen == 3
MaxOvFrames == 4
MaxPin == 6

PutBytes == {65, 170}
ExtBytes == {65, 170}
\* what malloc'ed memory and the byte behind an allocation may hold
Uninit == {0, 255}

SERIAL_ERROR == "SERIAL_ERROR"
SERIAL_OK == "SERIAL_OK"

\* status codes: each is the set of bits of its mask
SERIAL_IDLE == {}
SERIAL_SENT_START_BIT == {"SENT_START_BIT"}
SERIAL_SENDING_DATA == {"SENDING_DATA"}
SERIAL_TX_BUFFER_LOCKED == {"TX_BUFFER_LOCKED"}
SERIAL_RECEIVED_START_BIT == {"RECEIVED_START_BIT"}
SERIAL_RECEIVING_DATA == {"RECEIVING_DATA"}
SERIAL_RECEIVE_OVERFLOW == {"RECEIVE_OVERFLOW"}
SERIAL_NOT_INITIALISED == {"NOT_INITIALISED"}

VARIABLES
  \* file globals of the library
  connection_state, rx_buffer, tx_buffer,
  rx_bit_counter, tx_bit_counter, rx_byte, tx_byte,
  rx_phase, tx_phase, rx_sample_countdown, rx_start_bit_timecount,
  \* heap blocks returned by malloc in serial_initialise
  rxd, txd,
  \* hardware: timer running (TCCR1 & 0x0f), TCNT1 relative to the sample
  \* offset threshold, GIMSK.PCIE, PCMSK bit of the RX pin, GIFR.PCIF,
  \* SREG.I, PORTB bit of the TX pin
  timer_running, TCNT1, pcie, pcmsk, pcif, iflag, tx_pin,
  \* the bits set in DDRB and in PORTB, and the configuration kept by the
  \* serial_initialise that takes one
  DDRB, PORTB, my_config,
  \* the tick ISR is stuck in a loop that cannot end
  hung,
  \* an access outside a malloc'ed block has happened
  oob,
  \* the baud index the library is built for (SERIAL_SPEED), the compare
  \* register of Timer1, and the count of Timer1 in timer clocks; the
  \* count is followed in the timer specification only, elsewhere TCNT1
  \* carries its position relative to the sample offset threshold
  speed, OCR1A, tcnt,
  \* foreground thread: program counter and locals
  fg,
  \* environment: wiring of the RX pin, external transmitter, its line
  wiring, ext, ext_line,
  \* history: bytes stored by put_char, bytes seen as complete frames on
  \* the TX pin, the wire monitor, the levels of the current TX frame,
  \* bytes stored by store_data, bytes returned by get_char,
  \* put_char results of the current send_data call, receive control calls,
  \* number of shift_buffer_down(&tx_buffer) calls that returned SERIAL_OK,
  \* whether an ISR has run since acquire_buffer_lock found the lock clear
  accepted, emitted, wire, txframe, committed, got, offered, rxctl, removed,
  isr_since_test,
  \* ticks taken since ISR(PCINT0_vect) last took a start bit, counted
  \* while SERIAL_RECEIVED_START_BIT is set
  capture_ticks

prog == <<connection_state, rx_buffer, tx_buffer, rx_bit_counter,
          tx_bit_counter, rx_byte, tx_byte, rx_phase, tx_phase,
          rx_sample_countdown, rx_start_bit_timecount, rxd, txd>>
hw == <<timer_running, TCNT1, pcie, pcmsk, pcif, iflag, tx_pin, hung, oob,
        speed, OCR1A, tcnt, DDRB, PORTB, my_config>>
env == <<wiring, ext, ext_line>>
hist == <<accepted, emitted, wire, txframe, committed, got, offered, rxctl,
          removed, isr_since_test,
                 capture_ticks>>
vars == <<prog, hw, fg, env, hist>>

(***************************************************************************)
(* Bit arithmetic on uint8_t                                               *)
(***************************************************************************)
Bit(b, i) == (b \div (2^i)) % 2

\* an OrBit that sets the bit above
OrBitAbove(b, i) == IF i < 7 /\ Bit(b, i + 1) = 0 THEN b + 2^(i + 1) ELSE b

\* b |= (1 << i), stored back into a uint8_t: bits 8 and up are cut off
OrBit(b, i) == IF i < 8 /\ Bit(b, i) = 0 THEN b + 2^i ELSE b

\* value of eight levels, least significant bit first
RECURSIVE ByteOf(_)
ByteOf(bits) ==
  IF bits = <<>> THEN 0 ELSE Head(bits) + 2 * ByteOf(Tail(bits))

DataBits(b) == [i \in 1..8 |-> Bit(b, i - 1)]

\* the ten levels of an 8-N-1 frame
FrameOf(b) == <<0>> \o DataBits(b) \o <<1>>

IsPrefix(s, t) == Len(s) <= Len(t) /\ SubSeq(t, 1, Len(s)) = s

IsSuffix(s, t) ==
  Len(s) <= Len(t) /\ SubSeq(t, Len(t) - Len(s) + 1, Len(t)) = s

(***************************************************************************)
(* Configuration of the header: the TX pin is PB1 of PORTB, the RX pin is  *)
(* PB2, read through PINB.  A register is named by its name.               *)
(***************************************************************************)
TX_PORT == "PORTB"
TX_PIN == 1
RX_PORT == "PINB"
RX_PIN == 2

\* serial.h: SERIAL_SPEED is SERIAL_SPEED_9600, index 1 of the baud rates
\* 2400, 9600, 19200, 38400, 57600, 115200
SERIAL_SPEED == 1
serial_speeds == <<2400, 9600, 19200, 38400, 57600, 115200>>

\* serial.c of part_001
NUM_SPEED == 6
PRESCALER_DIVISOR == 8
\* "Values below are for 8 MHz"
F_CPU == 8000000

HeaderConfig ==
  [tx_port |-> TX_PORT, tx_pin |-> TX_PIN,
   rx_port |-> RX_PORT, rx_pin |-> RX_PIN]

\* my_config before any serial_initialise has filled it
NoConfig == [tx_port |-> "none", tx_pin |-> 0, rx_port |-> "none", rx_pin |-> 0]

(***************************************************************************)
(* Private functions of the library                                        *)
(***************************************************************************)
\* setup_io(port, pin, dir) on DDRB = ddrb and PORTB = portb
setup_io(port, pin, dir, ddrb, portb) ==
  IF port # "PORTB" /\ port # "PINB"
  THEN [retval |-> SERIAL_ERROR, DDRB |-> ddrb, PORTB |-> portb]
  ELSE IF pin > 5
  THEN [retval |-> SERIAL_ERROR, DDRB |-> ddrb, PORTB |-> portb]
  ELSE IF dir = "SERIAL_DIR_TX"
  THEN [retval |-> SERIAL_OK, DDRB |-> ddrb \cup {pin},
        PORTB |-> portb \cup {pin}]
  ELSE [retval |-> SERIAL_OK, DDRB |-> ddrb \ {pin},
        PORTB |-> portb \ {pin}]

\* a move_connection_state that assigns the destination
move_connection_state_assigns(cs, src_state, dst_state) == dst_state

move_connection_state(cs, src_state, dst_state) ==
  (cs \ src_state) \cup dst_state

connection_state_is(cs, expected_state) == (cs \cap expected_state) # {}

\* a send_data_bit that takes the bits most significant first
send_data_bit_msb_first(byte, bit) ==
  IF bit < 8 /\ Bit(byte, 7 - bit) = 1 THEN 1 ELSE 0

\* level the TX pin gets from send_data_bit(bit)
send_data_bit(byte, bit) == IF Bit(byte, bit) = 1 THEN 1 ELSE 0

(***************************************************************************)
(* shift_buffer_down(buffer): mem is the block buffer->data points to.     *)
(* The loop index is a uint8_t compared with the uint16_t top: with        *)
(* top > 255 the loop never ends.  With top equal to the allocated size    *)
(* the copy reads, and the final store writes, the byte behind the block.  *)
(***************************************************************************)
\* a shift_buffer_down that returns with the lock set
shift_buffer_down_keeps_lock(buffer, mem) ==
  LET size == Len(mem) - 1
      top == buffer.top
  IN  IF buffer.lock = 1
      THEN [buffer |-> buffer, mem |-> mem, retval |-> SERIAL_ERROR,
            oob |-> FALSE, hang |-> FALSE]
      ELSE IF top > 255
      THEN [buffer |-> [buffer EXCEPT !.lock = 1], mem |-> mem,
            retval |-> SERIAL_ERROR, oob |-> TRUE, hang |-> TRUE]
      ELSE [buffer |-> [buffer EXCEPT !.lock = 1,
                                      !.top = (top - 1) % 65536],
            mem |-> [i \in 1..(size + 1) |->
                       IF i - 1 < top THEN mem[i + 1]
                       ELSE IF i - 1 = top THEN 0
                       ELSE mem[i]],
            retval |-> SERIAL_OK,
            oob |-> (top >= size),
            hang |-> FALSE]

\* a shift_buffer_down that does not look at the lock
shift_buffer_down_ignores_lock(buffer, mem) ==
  LET size == Len(mem) - 1
      top == buffer.top
  IN  IF top > 255
      THEN [buffer |-> [buffer EXCEPT !.lock = 1], mem |-> mem,
            retval |-> SERIAL_ERROR, oob |-> TRUE, hang |-> TRUE]
      ELSE [buffer |-> [buffer EXCEPT !.lock = 0,
                                      !.top = (top - 1) % 65536],
            mem |-> [i \in 1..(size + 1) |->
                       IF i - 1 < top THEN mem[i + 1]
                       ELSE IF i - 1 = top THEN 0
                       ELSE mem[i]],
            retval |-> SERIAL_OK,
            oob |-> (top >= size),
            hang |-> FALSE]

shift_buffer_down(buffer, mem) ==
  LET size == Len(mem) - 1
      top == buffer.top
  IN  IF buffer.lock = 1
      THEN [buffer |-> buffer, mem |-> mem, retval |-> SERIAL_ERROR,
            oob |-> FALSE, hang |-> FALSE]
      ELSE IF top > 255
      THEN [buffer |-> [buffer EXCEPT !.lock = 1], mem |-> mem,
            retval |-> SERIAL_ERROR, oob |-> TRUE, hang |-> TRUE]
      ELSE [buffer |-> [buffer EXCEPT !.lock = 0,
                                      !.top = (top - 1) % 65536],
            mem |-> [i \in 1..(size + 1) |->
                       IF i - 1 < top THEN mem[i + 1]
                       ELSE IF i - 1 = top THEN 0
                       ELSE mem[i]],
            retval |-> SERIAL_OK,
            oob |-> (top >= size),
            hang |-> FALSE]

(***************************************************************************)
(* store_data(buffer, data)                                                *)
(***************************************************************************)
\* a store_data whose room test is off by one
store_data_off_by_one(buffer, mem, data, cs) ==
  IF buffer.top <= RX_BUFFER_SIZE
  THEN [buffer |-> [buffer EXCEPT !.lock = 0, !.top = buffer.top + 1],
        mem |-> [mem EXCEPT ![buffer.top + 1] = data],
        retval |-> SERIAL_OK,
        cs |-> cs]
  ELSE [buffer |-> [buffer EXCEPT !.lock = 0],
        mem |-> mem,
        retval |-> SERIAL_ERROR,
        cs |-> move_connection_state(cs, SERIAL_RECEIVING_DATA,
                                     SERIAL_RECEIVE_OVERFLOW)]

\* a store_data that overwrites the newest byte when the buffer is full
store_data_overwrites(buffer, mem, data, cs) ==
  IF buffer.top < RX_BUFFER_SIZE
  THEN [buffer |-> [buffer EXCEPT !.lock = 0, !.top = buffer.top + 1],
        mem |-> [mem EXCEPT ![buffer.top + 1] = data],
        retval |-> SERIAL_OK,
        cs |-> cs]
  ELSE [buffer |-> [buffer EXCEPT !.lock = 0],
        mem |-> [mem EXCEPT ![buffer.top] = data],
        retval |-> SERIAL_ERROR,
        cs |-> move_connection_state(cs, SERIAL_RECEIVING_DATA,
                                     SERIAL_RECEIVE_OVERFLOW)]

\* a store_data that returns with the lock set
store_data_keeps_lock(buffer, mem, data, cs) ==
  IF buffer.top < RX_BUFFER_SIZE
  THEN [buffer |-> [buffer EXCEPT !.lock = 1, !.top = buffer.top + 1],
        mem |-> [mem EXCEPT ![buffer.top + 1] = data],
        retval |-> SERIAL_OK,
        cs |-> cs]
  ELSE [buffer |-> [buffer EXCEPT !.lock = 1],
        mem |-> mem,
        retval |-> SERIAL_ERROR,
        cs |-> move_connection_state(cs, SERIAL_RECEIVING_DATA,
                                     SERIAL_RECEIVE_OVERFLOW)]

\* a store_data that leaves top alone
store_data_keeps_top(buffer, mem, data, cs) ==
  IF buffer.top < RX_BUFFER_SIZE
  THEN [buffer |-> [buffer EXCEPT !.lock = 0],
        mem |-> [mem EXCEPT ![buffer.top + 1] = data],
        retval |-> SERIAL_OK,
        cs |-> cs]
  ELSE [buffer |-> [buffer EXCEPT !.lock = 0],
        mem |-> mem,
        retval |-> SERIAL_ERROR,
        cs |-> move_connection_state(cs, SERIAL_RECEIVING_DATA,
                                     SERIAL_RECEIVE_OVERFLOW)]

store_data(buffer, mem, data, cs) ==
  IF buffer.top < RX_BUFFER_SIZE
  THEN [buffer |-> [buffer EXCEPT !.lock = 0, !.top = buffer.top + 1],
        mem |-> [mem EXCEPT ![buffer.top + 1] = data],
        retval |-> SERIAL_OK,
        cs |-> cs]
  ELSE [buffer |-> [buffer EXCEPT !.lock = 0],
        mem |-> mem,
        retval |-> SERIAL_ERROR,
        cs |-> move_connection_state(cs, SERIAL_RECEIVING_DATA,
                                     SERIAL_RECEIVE_OVERFLOW)]

(***************************************************************************)
(* The state the two ISRs work on, as one record, so that the three        *)
(* sections of the tick ISR compose in order.                              *)
(***************************************************************************)
Machine ==
  [connection_state |-> connection_state,
   rx_buffer |-> rx_buffer, tx_buffer |-> tx_buffer,
   rxd |-> rxd, txd |-> txd,
   rx_bit_counter |-> rx_bit_counter, tx_bit_counter |-> tx_bit_counter,
   rx_byte |-> rx_byte, tx_byte |-> tx_byte,
   rx_phase |-> rx_phase, tx_phase |-> tx_phase,
   rx_sample_countdown |-> rx_sample_countdown,
   pcie |-> pcie, tx_pin |-> tx_pin, hung |-> hung, oob |-> oob,
   committed |-> committed, removed |-> removed]

\* level read by bit_is_set(RX_PORT, RX_PIN)
RxPin == IF wiring = "loopback" THEN tx_pin ELSE ext_line

enable_rx_interrupt(m) == [m EXCEPT !.pcie = TRUE]

disable_rx_interrupt(m) == [m EXCEPT !.pcie = FALSE]

\* an end of frame that leaves the pin change interrupt off
RxFrameDoneNoEnable(m) ==
  [m EXCEPT !.connection_state =
      move_connection_state(m.connection_state,
         SERIAL_RECEIVING_DATA, SERIAL_IDLE)]

\* an end of frame that re-enables the interrupt and stays in Receiving
RxFrameDoneKeepsState(m) == enable_rx_interrupt(m)

\* the end of the stop-bit case: back to Idle, wait for the next start bit
RxFrameDone(m) ==
  enable_rx_interrupt(
    [m EXCEPT !.connection_state =
        move_connection_state(m.connection_state,
           SERIAL_RECEIVING_DATA, SERIAL_IDLE)])

(***************************************************************************)
(* ISR(TIM1_COMPA_vect), RX section.  pin is the level of the RX pin.      *)
(* rx_sample_countdown-- == 0 compares the old value and then decrements   *)
(* the uint8_t, so the tick that samples leaves it at 255.                 *)
(***************************************************************************)
TIM1_COMPA_RX(m, pin) ==
  IF connection_state_is(m.connection_state, SERIAL_RECEIVED_START_BIT)
  THEN IF m.rx_sample_countdown = 0
       THEN [m EXCEPT
               !.rx_sample_countdown = (m.rx_sample_countdown - 1) % 256,
               !.rx_byte = IF pin = 1 THEN OrBit(m.rx_byte, m.rx_bit_counter)
                           ELSE m.rx_byte,
               !.rx_bit_counter = (m.rx_bit_counter + 1) % 256,
               !.rx_phase = 0,
               !.connection_state =
                  move_connection_state(m.connection_state,
                     SERIAL_RECEIVED_START_BIT, SERIAL_RECEIVING_DATA)]
       ELSE [m EXCEPT
               !.rx_sample_countdown = (m.rx_sample_countdown - 1) % 256]
  ELSE IF m.rx_phase # 0
          /\ connection_state_is(m.connection_state, SERIAL_RECEIVING_DATA)
  THEN IF m.rx_bit_counter = 8
       THEN LET st == store_data(m.rx_buffer, m.rxd, m.rx_byte,
                                 m.connection_state)
                m1 == IF pin = 1
                      THEN [m EXCEPT
                              !.rx_phase = 0,
                              !.rx_bit_counter = 0,
                              !.rx_buffer = st.buffer,
                              !.rxd = st.mem,
                              !.connection_state = st.cs,
                              !.committed =
                                 IF st.retval = SERIAL_OK
                                 THEN Append(m.committed, m.rx_byte)
                                 ELSE m.committed,
                              !.rx_byte = 0]
                      ELSE [m EXCEPT !.rx_phase = 0]
            IN  RxFrameDone(m1)
       ELSE [m EXCEPT
               !.rx_phase = 0,
               !.rx_byte = IF pin = 1 THEN OrBit(m.rx_byte, m.rx_bit_counter)
                           ELSE m.rx_byte,
               !.rx_bit_counter = (m.rx_bit_counter + 1) % 256]
  ELSE [m EXCEPT !.rx_phase = 1]

(***************************************************************************)
(* ISR(TIM1_COMPA_vect), TX section                                        *)
(***************************************************************************)
\* result of shift_buffer_down(&tx_buffer) applied to the machine
TxShift(m) ==
  LET sh == shift_buffer_down(m.tx_buffer, m.txd)
  IN  [m EXCEPT !.tx_buffer = sh.buffer, !.txd = sh.mem,
                !.oob = m.oob \/ sh.oob, !.hung = sh.hang,
                !.removed = IF sh.retval = SERIAL_OK THEN m.removed + 1
                            ELSE m.removed]

\* the branch taken when SERIAL_SENDING_DATA is set
TxSendingBranch(m) ==
  IF m.tx_bit_counter = 8
  THEN LET sh == shift_buffer_down(m.tx_buffer, m.txd)
           m1 == [TxShift(m) EXCEPT !.tx_pin = 1]
       IN  IF sh.retval = SERIAL_OK
           THEN [m1 EXCEPT !.connection_state =
                   move_connection_state(m.connection_state,
                      SERIAL_SENDING_DATA, SERIAL_IDLE)]
           ELSE [m1 EXCEPT !.connection_state =
                   move_connection_state(m.connection_state,
                      SERIAL_SENDING_DATA, SERIAL_TX_BUFFER_LOCKED)]
  ELSE [m EXCEPT !.tx_pin = send_data_bit(m.tx_byte, m.tx_bit_counter),
                 !.tx_bit_counter = (m.tx_bit_counter + 1) % 256]

\* the branch taken when only SERIAL_TX_BUFFER_LOCKED is set
TxLockedBranch(m) ==
  LET sh == shift_buffer_down(m.tx_buffer, m.txd)
      m1 == TxShift(m)
  IN  IF sh.retval = SERIAL_OK
      THEN [m1 EXCEPT !.connection_state =
              move_connection_state(m.connection_state,
                 SERIAL_SENDING_DATA, SERIAL_IDLE)]
      ELSE m1

\* an idle branch that does not reset tx_bit_counter
TxIdleBranchKeepsCounter(m) ==
  IF m.tx_buffer.top # 0
  THEN [m EXCEPT !.tx_pin = 0,
                 !.tx_byte = m.txd[1],
                 !.connection_state =
                    move_connection_state(m.connection_state,
                       SERIAL_IDLE, SERIAL_SENT_START_BIT)]
  ELSE m

\* the branch taken when no TX bit is set
TxIdleBranch(m) ==
  IF m.tx_buffer.top # 0
  THEN [m EXCEPT !.tx_pin = 0,
                 !.tx_byte = m.txd[1],
                 !.tx_bit_counter = 0,
                 !.connection_state =
                    move_connection_state(m.connection_state,
                       SERIAL_IDLE, SERIAL_SENT_START_BIT)]
  ELSE m

TIM1_COMPA_TX(m) ==
  IF m.tx_phase = 0
  THEN [m EXCEPT !.tx_phase = 1]
  ELSE LET m0 == [m EXCEPT !.tx_phase = 0]
       IN  IF connection_state_is(m.connection_state, SERIAL_SENT_START_BIT)
           THEN [m0 EXCEPT
                   !.tx_pin = send_data_bit(m.tx_byte, m.tx_bit_counter),
                   !.tx_bit_counter = (m.tx_bit_counter + 1) % 256,
                   !.connection_state =
                      move_connection_state(m.connection_state,
                         SERIAL_SENT_START_BIT, SERIAL_SENDING_DATA)]
           ELSE IF connection_state_is(m.connection_state,
                                       SERIAL_SENDING_DATA)
           THEN TxSendingBranch(m0)
           ELSE IF connection_state_is(m.connection_state,
                                       SERIAL_TX_BUFFER_LOCKED)
           THEN TxLockedBranch(m0)
           ELSE TxIdleBranch(m0)

(***************************************************************************)
(* ISR(TIM1_COMPA_vect), bottom handler                                    *)
(***************************************************************************)
\* a bottom handler that clears the overflow bit when it makes room
TIM1_COMPA_bottom_clears_overflow(m) ==
  IF m.rx_buffer.dirty # 0
  THEN LET sh == shift_buffer_down(m.rx_buffer, m.rxd)
       IN  [m EXCEPT !.rx_buffer = [sh.buffer EXCEPT !.dirty = 0],
                     !.rxd = sh.mem,
                     !.oob = m.oob \/ sh.oob,
                     !.connection_state =
                        m.connection_state \ SERIAL_RECEIVE_OVERFLOW]
  ELSE m

\* a bottom handler that clears dirty without shifting
TIM1_COMPA_bottom_no_shift(m) ==
  IF m.rx_buffer.dirty # 0
  THEN [m EXCEPT !.rx_buffer = [m.rx_buffer EXCEPT !.dirty = 0]]
  ELSE m

\* a bottom handler that shifts the RX buffer on every tick
TIM1_COMPA_bottom_always_shifts(m) ==
  LET sh == shift_buffer_down(m.rx_buffer, m.rxd)
  IN  IF sh.hang
      THEN [m EXCEPT !.rx_buffer = sh.buffer, !.hung = TRUE, !.oob = TRUE]
      ELSE [m EXCEPT !.rx_buffer = [sh.buffer EXCEPT !.dirty = 0],
                     !.rxd = sh.mem,
                     !.oob = m.oob \/ sh.oob]

TIM1_COMPA_bottom(m) ==
  IF m.rx_buffer.dirty # 0
  THEN LET sh == shift_buffer_down(m.rx_buffer, m.rxd)
       IN  IF sh.hang
           THEN [m EXCEPT !.rx_buffer = sh.buffer, !.hung = TRUE,
                          !.oob = TRUE]
           ELSE [m EXCEPT !.rx_buffer = [sh.buffer EXCEPT !.dirty = 0],
                          !.rxd = sh.mem,
                          !.oob = m.oob \/ sh.oob]
  ELSE m

\* a handler whose TX section is skipped while a byte is being received
TIM1_COMPA_tx_waits_for_rx(m, pin) ==
  LET m1 == TIM1_COMPA_RX(m, pin)
      m2 == IF connection_state_is(m1.connection_state,
                                   SERIAL_RECEIVING_DATA)
            THEN m1
            ELSE TIM1_COMPA_TX(m1)
  IN  IF m2.hung THEN m2 ELSE TIM1_COMPA_bottom(m2)

\* the whole handler; a section that never returns ends it
TIM1_COMPA(m, pin) ==
  LET m1 == TIM1_COMPA_RX(m, pin)
      m2 == TIM1_COMPA_TX(m1)
  IN  IF m2.hung THEN m2 ELSE TIM1_COMPA_bottom(m2)

(***************************************************************************)
(* Initial state: the static initialisers of the file globals and the      *)
(* registers after reset.  The heap holds arbitrary bytes.                 *)
(***************************************************************************)
FgIdle ==
  [pc |-> "idle", op |-> "none", last |-> "none", data |-> 0, str |-> <<>>,
   i |-> 0, top |-> 0, order |-> "none", my_data |-> 0,
   rc |-> "none", n |-> 0, top0 |-> 0, mem0 |-> <<>>]

ExtIdle(frames) ==
  [left |-> frames, busy |-> FALSE, done |-> FALSE, byte |-> 0,
   good |-> TRUE, bits |-> <<>>, wait |-> 0, late |-> FALSE,
   base |-> 0, pre |-> FALSE, rest |-> TRUE, b2b |-> FALSE,
   prev |-> "none", prevpre |-> FALSE, prevbyte |-> 0, ctl |-> "never",
   room |-> FALSE, ov |-> FALSE]

\* the state before main, but for the baud index
InitMachine ==
  /\ connection_state = SERIAL_NOT_INITIALISED
  /\ rx_buffer = [lock |-> 0, data |-> "NULL", top |-> 0, dirty |-> 0]
  /\ tx_buffer = [lock |-> 0, data |-> "NULL", top |-> 0, dirty |-> 0]
  /\ rx_bit_counter = 0 /\ tx_bit_counter = 0
  /\ rx_byte = 0 /\ tx_byte = 0
  /\ rx_phase = 0 /\ tx_phase = 0
  /\ rx_sample_countdown = 0
  /\ rx_start_bit_timecount = "lo"
  /\ \E j \in Uninit :
        /\ rxd = [i \in 1..(RX_BUFFER_SIZE + 1) |-> j]
        /\ txd = [i \in 1..(TX_BUFFER_SIZE + 1) |-> j]
  /\ timer_running = FALSE /\ TCNT1 = "lo"
  /\ OCR1A = 0 /\ tcnt = 0
  /\ pcie = FALSE /\ pcmsk = FALSE /\ pcif = FALSE /\ iflag = FALSE
  /\ tx_pin = 0
  /\ DDRB = {} /\ PORTB = {} /\ my_config = NoConfig
  /\ hung = FALSE /\ oob = FALSE
  /\ fg = FgIdle
  /\ ext_line = 1
  /\ accepted = <<>> /\ emitted = <<>>
  /\ wire = [busy |-> FALSE, bits |-> <<>>]
  /\ txframe = [levels |-> <<>>, ticks |-> 0]
  /\ committed = <<>> /\ got = <<>> /\ offered = <<>>
  /\ rxctl = "never"
  /\ removed = 0
  /\ isr_since_test = FALSE
  /\ capture_ticks = 0

\* built as the header says: 9600 baud
InitCommon == InitMachine /\ speed = SERIAL_SPEED

\* TX only: nothing is connected to the RX pin
InitTx == InitCommon /\ wiring = "external" /\ ext = ExtIdle(0)

\* an external transmitter drives the RX pin
InitRx == InitCommon /\ wiring = "external" /\ ext = ExtIdle(MaxFrames)

\* the RX pin is wired to the TX pin
InitLoop == InitCommon /\ wiring = "loopback" /\ ext = ExtIdle(0)

(***************************************************************************)
(* Interrupt delivery                                                      *)
(***************************************************************************)
\* the pin change interrupt is requested and enabled
PcintPending == iflag /\ pcie /\ pcif /\ ~hung

\* the external transmitter's next edge falls before the next tick
ExtDue == ext.busy /\ ext.bits # <<>> /\ ext.wait = 0

\* the foreground executes an instruction only when no interrupt is taken
FgRuns == ~hung /\ ~PcintPending

(***************************************************************************)
(* ISR(PCINT0_vect)                                                        *)
(***************************************************************************)
\* a countdown that is 2 wherever the edge falls in the timer period
SampleCountdownAlwaysTwo(timecount) == 2

\* the countdown for a start edge captured at timecount: 2 below the
\* sample offset threshold of the speed, else 3
SampleCountdown(timecount) == IF timecount = "lo" THEN 2 ELSE 3

\* a pin change ISR that takes every edge for a start bit
PCINT0_any_edge ==
  /\ PcintPending
  /\ pcif' = FALSE
  /\ rx_start_bit_timecount' = TCNT1
  /\ pcie' = FALSE
  /\ rx_sample_countdown' = SampleCountdown(TCNT1)
  /\ connection_state' =
        move_connection_state(connection_state, SERIAL_IDLE,
                              SERIAL_RECEIVED_START_BIT)
  /\ capture_ticks' = 0
  /\ UNCHANGED <<rx_buffer, tx_buffer, rx_bit_counter, tx_bit_counter,
                 rx_byte, tx_byte, rx_phase, tx_phase, rxd, txd,
                 timer_running, TCNT1, pcmsk, iflag, tx_pin, hung, oob,
                 speed, OCR1A, tcnt,
                 DDRB, PORTB, my_config, fg, env, accepted, emitted, wire,
                 txframe, committed, got, offered, rxctl, removed>>
  /\ isr_since_test' = (fg.pc = "acquire_set")

PCINT0 ==
  /\ PcintPending
  /\ pcif' = FALSE
  /\ rx_start_bit_timecount' = TCNT1
  /\ IF RxPin = 1
     THEN UNCHANGED <<pcie, rx_sample_countdown, connection_state,
                      capture_ticks>>
     ELSE /\ pcie' = FALSE
          /\ rx_sample_countdown' = SampleCountdown(TCNT1)
          /\ connection_state' =
                move_connection_state(connection_state, SERIAL_IDLE,
                                      SERIAL_RECEIVED_START_BIT)
          /\ capture_ticks' = 0
  /\ UNCHANGED <<rx_buffer, tx_buffer, rx_bit_counter, tx_bit_counter,
                 rx_byte, tx_byte, rx_phase, tx_phase, rxd, txd,
                 timer_running, TCNT1, pcmsk, iflag, tx_pin, hung, oob,
                 speed, OCR1A, tcnt,
                 DDRB, PORTB, my_config, fg, env, accepted, emitted, wire,
                 txframe, committed, got, offered, rxctl, removed>>
  /\ isr_since_test' = (fg.pc = "acquire_set")

(***************************************************************************)
(* ISR(TIM1_COMPA_vect): one tick                                          *)
(***************************************************************************)
\* what a receiver on the TX pin sees, one level per TX bit event
WireAfter(w, level) ==
  IF ~w.busy
  THEN IF level = 0 THEN [busy |-> TRUE, bits |-> <<>>] ELSE w
  ELSE IF Len(w.bits) < 8
  THEN [w EXCEPT !.bits = Append(w.bits, level)]
  ELSE [busy |-> FALSE, bits |-> <<>>]

WireEmits(w, level) == w.busy /\ Len(w.bits) = 8 /\ level = 1

\* the levels driven since the tick ISR last latched a byte
FrameAfter(f, latched, bitevent, level) ==
  IF latched THEN [levels |-> <<level>>, ticks |-> 0]
  ELSE IF f.levels = <<>> \/ Len(f.levels) = 10 THEN f
  ELSE [levels |-> IF bitevent THEN Append(f.levels, level) ELSE f.levels,
        ticks |-> f.ticks + 1]

Tick ==
  /\ timer_running /\ iflag /\ ~hung
  /\ ~PcintPending /\ ~ExtDue
  /\ LET m == TIM1_COMPA(Machine, RxPin)
         bitevent == tx_phase = 1
         latched == /\ bitevent
                    /\ ~connection_state_is(connection_state,
                          SERIAL_SENT_START_BIT \cup SERIAL_SENDING_DATA
                             \cup SERIAL_TX_BUFFER_LOCKED)
                    /\ connection_state_is(m.connection_state,
                          SERIAL_SENT_START_BIT)
     IN  /\ connection_state' = m.connection_state
         /\ rx_buffer' = m.rx_buffer
         /\ tx_buffer' = m.tx_buffer
         /\ rxd' = m.rxd
         /\ txd' = m.txd
         /\ rx_bit_counter' = m.rx_bit_counter
         /\ tx_bit_counter' = m.tx_bit_counter
         /\ rx_byte' = m.rx_byte
         /\ tx_byte' = m.tx_byte
         /\ rx_phase' = m.rx_phase
         /\ tx_phase' = m.tx_phase
         /\ rx_sample_countdown' = m.rx_sample_countdown
         /\ pcie' = m.pcie
         /\ tx_pin' = m.tx_pin
         /\ PORTB' = IF m.tx_pin = 1 THEN PORTB \cup {TX_PIN}
                                     ELSE PORTB \ {TX_PIN}
         /\ hung' = m.hung
         /\ oob' = m.oob
         /\ committed' = m.committed
         /\ removed' = m.removed
         /\ isr_since_test' = (fg.pc = "acquire_set")
         /\ capture_ticks' =
               IF connection_state_is(connection_state,
                                      SERIAL_RECEIVED_START_BIT)
               THEN capture_ticks + 1
               ELSE IF connection_state_is(m.connection_state,
                                           SERIAL_RECEIVING_DATA)
               THEN capture_ticks
               ELSE 0
         /\ pcif' = (pcif \/ (pcmsk /\ wiring = "loopback"
                                /\ m.tx_pin # tx_pin))
         /\ wire' = IF bitevent THEN WireAfter(wire, m.tx_pin) ELSE wire
         /\ emitted' = IF bitevent /\ WireEmits(wire, m.tx_pin)
                       THEN Append(emitted, ByteOf(wire.bits))
                       ELSE emitted
         /\ txframe' = FrameAfter(txframe, latched, bitevent, m.tx_pin)
  /\ TCNT1' = "lo"
  /\ ext' = [ext EXCEPT !.wait = IF ext.wait > 0 THEN ext.wait - 1 ELSE 0,
                        !.busy = ext.busy /\ ~(ext.bits = <<>> /\ ext.wait <= 1),
                        !.done = ext.done \/
                                 (ext.busy /\ ext.bits = <<>> /\ ext.wait <= 1),
                        !.rest = ~ext.busy]
  /\ UNCHANGED <<rx_start_bit_timecount, timer_running, pcmsk, iflag,
                 speed, OCR1A, tcnt,
                 DDRB, my_config, fg, wiring, ext_line, accepted, got,
                 offered, rxctl>>

(***************************************************************************)
(* External transmitter on the RX pin: one level every two ticks.  A good  *)
(* frame is a start bit, eight data bits LSB first and a stop bit.  A      *)
(* break holds the line low through start bit, data bits and stop bit and  *)
(* lets it go high one bit later.  late says that the frame's edges fall   *)
(* in the part of the timer period where TCNT1 is at or above the sample   *)
(* offset threshold.  The transmitter remembers, for the properties, what  *)
(* it saw as the frame started: the number of bytes stored so far (base),  *)
(* whether the receiver was ready (pre), whether the start edge comes      *)
(* exactly one bit time after the previous stop bit began (b2b), what the  *)
(* previous frame was (prev, prevpre, prevbyte), the receive control calls *)
(* made (ctl), whether the RX buffer had room (room) and whether the       *)
(* overflow bit was set (ov).                                              *)
(***************************************************************************)
ExtFrames ==
  {[byte |-> b, good |-> TRUE] : b \in ExtBytes}
     \cup {[byte |-> 0, good |-> FALSE]}

RxSubstateIdle ==
  ~connection_state_is(connection_state,
      SERIAL_RECEIVED_START_BIT \cup SERIAL_RECEIVING_DATA)

\* the transmitter starts one of the given frames
ExtStartOf(frames) ==
  /\ timer_running /\ ~hung /\ ~PcintPending
  /\ wiring = "external"
  /\ ext.left > 0 /\ ~ext.busy
  /\ \E fr \in frames, late \in BOOLEAN :
        /\ ext' = [left |-> ext.left - 1, busy |-> TRUE, done |-> FALSE,
                   byte |-> fr.byte, good |-> fr.good,
                   bits |-> DataBits(fr.byte) \o
                            (IF fr.good THEN <<1>> ELSE <<0, 1>>),
                   wait |-> 2, late |-> late,
                   base |-> Len(committed),
                   pre |-> pcie /\ RxSubstateIdle
                           /\ rx_buffer.top < RX_BUFFER_SIZE,
                   rest |-> FALSE,
                   b2b |-> ext.done /\ ~ext.rest,
                   prev |-> IF ~ext.done THEN "none"
                            ELSE IF ext.good THEN "good" ELSE "break",
                   prevpre |-> ext.done /\ ext.pre,
                   prevbyte |-> ext.byte,
                   ctl |-> rxctl,
                   room |-> rx_buffer.top < RX_BUFFER_SIZE,
                   ov |-> connection_state_is(connection_state,
                                              SERIAL_RECEIVE_OVERFLOW)]
        /\ TCNT1' = IF late THEN "hi" ELSE TCNT1
  /\ ext_line' = 0
  /\ pcif' = (pcif \/ pcmsk)
  /\ UNCHANGED <<prog, timer_running, pcie, pcmsk, iflag, tx_pin, hung, oob,
                 speed, OCR1A, tcnt,
                 DDRB, PORTB, my_config, fg, wiring, hist>>

\* good frames and breaks
ExtStart == ExtStartOf(ExtFrames)

\* good frames only
GoodFrames == {fr \in ExtFrames : fr.good}

\* good frames whose bytes alternate between 0x41 and 0xAA
AlternatingFrames ==
  {fr \in GoodFrames : fr.byte = IF ext.left % 2 = 0 THEN 65 ELSE 170}

ExtStartGood == ExtStartOf(AlternatingFrames)

ExtBit ==
  /\ ~hung /\ ~PcintPending
  /\ ExtDue
  /\ ext_line' = Head(ext.bits)
  /\ ext' = [ext EXCEPT !.bits = Tail(ext.bits), !.wait = 2]
  /\ TCNT1' = IF ext.late THEN "hi" ELSE TCNT1
  /\ pcif' = (pcif \/ (pcmsk /\ Head(ext.bits) # ext_line))
  /\ UNCHANGED <<prog, timer_running, pcie, pcmsk, iflag, tx_pin, hung, oob,
                 speed, OCR1A, tcnt,
                 DDRB, PORTB, my_config, fg, wiring, hist>>

(***************************************************************************)
(* Foreground: the caller of the public API.  It makes a call when it is   *)
(* idle; every step of a call is one access to shared memory.  The other   *)
(* calls are made after serial_initialise has returned SERIAL_OK.  The     *)
(* caller has at most MaxPut bytes accepted, MaxLoopPut under loopback.    *)
(***************************************************************************)
ClientIdle == fg.pc = "idle" /\ FgRuns

Initialised == timer_running

\* the call returns: rc is its return code, n its numeric result
Return(f, rc, n) ==
  [FgIdle EXCEPT !.last = f.op, !.rc = rc, !.n = n]

(***************************************************************************)
(* serial_initialise.  Interrupts are off until its final sei(), or the    *)
(* call returns early: one step.  malloc may fail.  The function comes in  *)
(* two forms: with the pins of the header (part_001), and with a           *)
(* configuration passed by the caller and kept in my_config (serial.c).    *)
(***************************************************************************)
\* an early return test that does not look at the timer
InitFailsIgnoresTimer(running, rx_ok, tx_ok) == ~rx_ok \/ ~tx_ok

\* the returns taken before anything is assigned: timer running, or a
\* malloc that returns NULL
InitFails(running, rx_ok, tx_ok) == running \/ ~rx_ok \/ ~tx_ok

\* the body after the two mallocs; config is the pins used, kept says
\* whether they are stored in my_config, pcint whether PCMSK is programmed
\* a table of compare values for a 16 MHz clock
timer_ocr_values_16MHz == <<416, 103, 51, 25, 16, 8>>

\* static uint8_t timer_ocr_values[NUM_SPEED], indexed from 1 here
timer_ocr_values == <<208, 52, 25, 12, 8, 3>>

\* static uint8_t sample_offset_treshold[NUM_SPEED], indexed from 1 here
sample_offset_treshold == <<120, 30, 14, 7, 5, 1>>

\* the table local to the serial_initialise of serial.c
timer_ocr_values_config == <<51, 25, 12, 8, 3>>

InitialiseBody(config, kept, pcint) ==
  LET tx == setup_io(config.tx_port, config.tx_pin, "SERIAL_DIR_TX",
                     DDRB, PORTB)
      rx == setup_io(config.rx_port, config.rx_pin, "SERIAL_DIR_RX",
                     tx.DDRB, tx.PORTB)
      level(portb) == IF config.tx_pin \in portb THEN 1 ELSE 0
  IN  /\ rx_buffer' = [rx_buffer EXCEPT !.data = "rxd"]
      /\ tx_buffer' = [tx_buffer EXCEPT !.data = "txd"]
      /\ IF tx.retval # SERIAL_OK
         THEN /\ fg' = Return([fg EXCEPT !.op = "initialise"],
                              SERIAL_ERROR, 0)
              /\ UNCHANGED <<DDRB, PORTB, tx_pin, my_config, pcmsk, OCR1A,
                             timer_running, TCNT1, connection_state, iflag>>
         ELSE IF rx.retval # SERIAL_OK
         THEN /\ fg' = Return([fg EXCEPT !.op = "initialise"],
                              SERIAL_ERROR, 0)
              /\ DDRB' = tx.DDRB /\ PORTB' = tx.PORTB
              /\ tx_pin' = level(tx.PORTB)
              /\ UNCHANGED <<my_config, pcmsk, timer_running, TCNT1,
                             connection_state, iflag, OCR1A>>
         ELSE /\ DDRB' = rx.DDRB /\ PORTB' = rx.PORTB
              /\ tx_pin' = level(rx.PORTB)
              /\ my_config' = IF kept THEN config ELSE my_config
              /\ pcmsk' = (pcmsk \/ pcint)
              /\ timer_running' = TRUE
              /\ TCNT1' = "lo"
              /\ OCR1A' = (IF kept THEN timer_ocr_values_config[speed + 1]
                                   ELSE timer_ocr_values[speed + 1]) % 256
              /\ connection_state' = SERIAL_IDLE
              /\ iflag' = TRUE
              /\ fg' = Return([fg EXCEPT !.op = "initialise"], SERIAL_OK, 0)
      /\ UNCHANGED <<rx_bit_counter, tx_bit_counter, rx_byte, tx_byte,
                     rx_phase, tx_phase, rx_sample_countdown,
                     rx_start_bit_timecount, rxd, txd,
                     pcie, pcif, hung, oob, speed, tcnt>>

\* serial_initialise() of part_001
serial_initialise ==
  /\ ClientIdle
  /\ \E rx_ok \in BOOLEAN, tx_ok \in BOOLEAN :
        IF InitFails(timer_running, rx_ok, tx_ok)
        THEN /\ fg' = Return([fg EXCEPT !.op = "initialise"],
                             SERIAL_ERROR, 0)
             /\ UNCHANGED <<prog, hw>>
        ELSE InitialiseBody(HeaderConfig, FALSE, TRUE)
  /\ UNCHANGED <<env, hist>>

\* the registers and pin numbers a caller may pass: the two registers of
\* port B and one other register; the header's two pins, the highest pin
\* setup_io accepts and the one above it
Ports == {"PORTB", "PINB", "DDRB"}

Pins == {TX_PIN, RX_PIN, MaxPin - 1, MaxPin}

Configs == [tx_port : Ports, tx_pin : Pins, rx_port : Ports, rx_pin : Pins]

\* serial_initialise(config) of serial.c
serial_initialise_config ==
  /\ ClientIdle
  /\ \E rx_ok \in BOOLEAN, tx_ok \in BOOLEAN, config \in Configs :
        IF InitFails(timer_running, rx_ok, tx_ok)
        THEN /\ fg' = Return([fg EXCEPT !.op = "initialise"],
                             SERIAL_ERROR, 0)
             /\ UNCHANGED <<prog, hw>>
        ELSE InitialiseBody(config, TRUE, FALSE)
  /\ UNCHANGED <<env, hist>>

(***************************************************************************)
(* serial_enable_receive, serial_disable_receive                           *)
(***************************************************************************)
\* rxctl after serial_enable_receive: "on" if receive was switched on
\* before any traffic and not touched since, "other" otherwise;
\* serial_disable_receive leaves "off"
RxCtlAfter(quiet) == IF rxctl = "never" /\ quiet THEN "on" ELSE "other"

NoTraffic == accepted = <<>> /\ ~ext.busy /\ ~ext.done

serial_enable_receive ==
  /\ ClientIdle /\ Initialised
  /\ pcie' = enable_rx_interrupt(Machine).pcie
  /\ fg' = Return([fg EXCEPT !.op = "enable_receive"], "none", 0)
  /\ rxctl' = RxCtlAfter(NoTraffic)
  /\ UNCHANGED <<prog, timer_running, TCNT1, pcmsk, pcif, iflag, tx_pin,
                 hung, oob,
                 speed, OCR1A, tcnt, DDRB, PORTB, my_config, env, accepted, emitted,
                 wire, txframe, committed, got, offered, removed,
                 isr_since_test,
                 capture_ticks>>

serial_disable_receive ==
  /\ ClientIdle /\ Initialised
  /\ pcie' = disable_rx_interrupt(Machine).pcie
  /\ fg' = Return([fg EXCEPT !.op = "disable_receive"], "none", 0)
  /\ rxctl' = "off"
  /\ UNCHANGED <<prog, timer_running, TCNT1, pcmsk, pcif, iflag, tx_pin,
                 hung, oob,
                 speed, OCR1A, tcnt, DDRB, PORTB, my_config, env, accepted, emitted,
                 wire, txframe, committed, got, offered, removed,
                 isr_since_test,
                 capture_ticks>>

(***************************************************************************)
(* serial_put_char and serial_send_data                                    *)
(***************************************************************************)
\* how many accepted bytes the caller stops at
PutLimit == IF wiring = "loopback" THEN MaxLoopPut ELSE MaxPut

\* The call's only step before the lock is set is the read of
\* while(buffer->lock) that finds the lock clear.
call_put_char ==
  /\ ClientIdle /\ Initialised
  /\ tx_buffer.lock = 0
  /\ Len(accepted) < PutLimit
  /\ \E b \in PutBytes :
        fg' = [FgIdle EXCEPT !.pc = "acquire_set", !.op = "put_char",
                             !.data = b]
  /\ UNCHANGED <<prog, hw, env, hist>>

\* a caller that calls serial_put_char before serial_initialise
call_put_char_early ==
  /\ ClientIdle /\ ~Initialised
  /\ tx_buffer.lock = 0
  /\ Len(accepted) < PutLimit
  /\ \E b \in PutBytes :
        fg' = [FgIdle EXCEPT !.pc = "acquire_set", !.op = "put_char",
                             !.data = b]
  /\ UNCHANGED <<prog, hw, env, hist>>

\* the strings a caller passes: "A", "AB", "ABA", ... for two bytes A, B
SendArgs ==
  {[i \in 1..k |-> IF i % 2 = 1 THEN a ELSE b] :
     k \in 0..MaxSendLen, a \in {65}, b \in {170}}

call_send_data ==
  /\ ClientIdle /\ Initialised
  /\ tx_buffer.lock = 0
  /\ \E str \in SendArgs :
        /\ Len(accepted) + Len(str) <= MaxPut
        /\ fg' = IF Len(str) = 0
                 THEN Return([fg EXCEPT !.op = "send_data"], "none", 0)
                 ELSE [FgIdle EXCEPT !.pc = "acquire_set",
                                     !.op = "send_data",
                                     !.str = str, !.data = str[1]]
  /\ offered' = <<>>
  /\ UNCHANGED <<prog, hw, env, accepted, emitted, wire, txframe,
                 committed, got, rxctl, removed, isr_since_test,
                 capture_ticks>>

\* acquire_buffer_lock: cli(); buffer->lock = 1; sei();
\* top0 and mem0 remember the buffer as it is when the lock is taken
acquire_set ==
  /\ fg.pc = "acquire_set" /\ FgRuns
  /\ tx_buffer' = [tx_buffer EXCEPT !.lock = 1]
  /\ fg' = [fg EXCEPT !.pc = "put_test", !.top0 = tx_buffer.top,
                      !.mem0 = txd]
  /\ UNCHANGED <<connection_state, rx_buffer, rx_bit_counter, tx_bit_counter,
                 rx_byte, tx_byte, rx_phase, tx_phase, rx_sample_countdown,
                 rx_start_bit_timecount, rxd, txd, hw, env, hist>>

\* the order in which tx_buffer.data[(tx_buffer.top)++] = data performs its
\* two stores: C leaves the side effect of ++ unsequenced with the store
\* to the array element, and the element is not volatile
StoreOrders == {"top_first", "data_first"}

\* a room test that is off by one
TxHasRoomOffByOne(top) == top <= TX_BUFFER_SIZE

\* the condition of if (tx_buffer.top < TX_BUFFER_SIZE)
TxHasRoom(top) == top < TX_BUFFER_SIZE

\* if (tx_buffer.top < TX_BUFFER_SIZE)
put_test ==
  /\ fg.pc = "put_test" /\ FgRuns
  /\ IF TxHasRoom(tx_buffer.top)
     THEN \E o \in StoreOrders :
             fg' = [fg EXCEPT !.pc = "put_store", !.order = o,
                              !.top = tx_buffer.top]
     ELSE fg' = [fg EXCEPT !.pc = "release", !.rc = SERIAL_ERROR]
  /\ isr_since_test' = FALSE
  /\ UNCHANGED <<prog, hw, env, accepted, emitted, wire, txframe, committed,
                 got, offered, rxctl, removed, capture_ticks>>

\* the store to tx_buffer.data[index]: into the block the pointer names,
\* or, through a NULL pointer, to the address index outside every block
StoreThrough(data, mem, index, byte) ==
  IF data = "NULL"
  THEN [mem |-> mem, oob |-> TRUE]
  ELSE [mem |-> [mem EXCEPT ![index + 1] = byte], oob |-> FALSE]

\* first store of tx_buffer.data[(tx_buffer.top)++] = data
put_store ==
  /\ fg.pc = "put_store" /\ FgRuns
  /\ IF fg.order = "top_first"
     THEN /\ tx_buffer' = [tx_buffer EXCEPT !.top = (fg.top + 1) % 65536]
          /\ txd' = txd
          /\ oob' = oob
     ELSE LET st == StoreThrough(tx_buffer.data, txd, fg.top, fg.data)
          IN  /\ txd' = st.mem
              /\ oob' = (oob \/ st.oob)
              /\ tx_buffer' = tx_buffer
  /\ fg' = [fg EXCEPT !.pc = "put_store2"]
  /\ accepted' = Append(accepted, fg.data)
  /\ UNCHANGED <<connection_state, rx_buffer, rx_bit_counter, tx_bit_counter,
                 rx_byte, tx_byte, rx_phase, tx_phase, rx_sample_countdown,
                 rx_start_bit_timecount, rxd, timer_running, TCNT1, pcie,
                 pcmsk, pcif, iflag, tx_pin, hung, DDRB, PORTB, my_config,
                 speed, OCR1A, tcnt,
                 env, emitted, wire, txframe, committed, got, offered,
                 rxctl, removed, isr_since_test,
                 capture_ticks>>

\* second store; retval = SERIAL_OK
put_store2 ==
  /\ fg.pc = "put_store2" /\ FgRuns
  /\ IF fg.order = "top_first"
     THEN LET st == StoreThrough(tx_buffer.data, txd, fg.top, fg.data)
          IN  /\ txd' = st.mem
              /\ oob' = (oob \/ st.oob)
              /\ tx_buffer' = tx_buffer
     ELSE /\ tx_buffer' = [tx_buffer EXCEPT !.top = (fg.top + 1) % 65536]
          /\ txd' = txd
          /\ oob' = oob
  /\ fg' = [fg EXCEPT !.pc = "release", !.rc = SERIAL_OK]
  /\ UNCHANGED <<connection_state, rx_buffer, rx_bit_counter, tx_bit_counter,
                 rx_byte, tx_byte, rx_phase, tx_phase, rx_sample_countdown,
                 rx_start_bit_timecount, rxd, timer_running, TCNT1, pcie,
                 pcmsk, pcif, iflag, tx_pin, hung, DDRB, PORTB, my_config,
                 speed, OCR1A, tcnt,
                 env, hist>>

\* a serial_send_data whose loop has no break
SendDataNextNoBreak(f, rc) ==
  IF f.i + 1 < Len(f.str)
  THEN [FgIdle EXCEPT !.pc = "acquire_set", !.op = "send_data",
                      !.str = f.str, !.i = f.i + 1,
                      !.data = f.str[f.i + 2]]
  ELSE Return(f, "none", f.i + 1)

\* serial_send_data after serial_put_char has returned rc for data[i]
SendDataNext(f, rc) ==
  IF rc = SERIAL_ERROR
  THEN Return(f, "none", f.i)
  ELSE IF f.i + 1 < Len(f.str)
  THEN [FgIdle EXCEPT !.pc = "acquire_set", !.op = "send_data",
                      !.str = f.str, !.i = f.i + 1,
                      !.data = f.str[f.i + 2]]
  ELSE Return(f, "none", f.i + 1)

\* release_buffer_lock, and the return of serial_put_char; in
\* serial_send_data the next serial_put_char then reads the lock it finds
\* clear
release ==
  /\ fg.pc = "release" /\ FgRuns
  /\ tx_buffer' = [tx_buffer EXCEPT !.lock = 0]
  /\ IF fg.op = "send_data"
     THEN /\ fg' = SendDataNext(fg, fg.rc)
          /\ offered' = Append(offered, [byte |-> fg.data, rc |-> fg.rc])
     ELSE /\ fg' = Return(fg, fg.rc, 0)
          /\ offered' = offered
  /\ UNCHANGED <<connection_state, rx_buffer, rx_bit_counter, tx_bit_counter,
                 rx_byte, tx_byte, rx_phase, tx_phase, rx_sample_countdown,
                 rx_start_bit_timecount, rxd, txd, hw, env,
                 accepted, emitted, wire, txframe, committed, got, rxctl,
                 removed, isr_since_test,
                 capture_ticks>>

(***************************************************************************)
(* serial_data_pending and serial_get_char.  serial_get_char is called     *)
(* only after serial_data_pending has returned a count above 0.            *)
(***************************************************************************)
call_data_pending ==
  /\ ClientIdle /\ Initialised
  /\ fg' = [FgIdle EXCEPT !.pc = "pending_test", !.op = "data_pending"]
  /\ UNCHANGED <<prog, hw, env, hist>>

\* if (rx_buffer.top)
pending_test ==
  /\ fg.pc = "pending_test" /\ FgRuns
  /\ fg' = IF rx_buffer.top # 0
           THEN [fg EXCEPT !.pc = "pending_wait"]
           ELSE Return(fg, "none", 0)
  /\ UNCHANGED <<prog, hw, env, hist>>

\* wait_buffer_clean: while(buffer->dirty);
pending_wait ==
  /\ fg.pc = "pending_wait" /\ FgRuns
  /\ rx_buffer.dirty = 0
  /\ fg' = [fg EXCEPT !.pc = "pending_read"]
  /\ UNCHANGED <<prog, hw, env, hist>>

\* retval = rx_buffer.top; return retval
pending_read ==
  /\ fg.pc = "pending_read" /\ FgRuns
  /\ fg' = Return(fg, "none", rx_buffer.top)
  /\ UNCHANGED <<prog, hw, env, hist>>

call_get_char ==
  /\ ClientIdle /\ Initialised
  /\ fg.last = "data_pending" /\ fg.n > 0
  /\ fg' = [FgIdle EXCEPT !.pc = "get_wait", !.op = "get_char"]
  /\ UNCHANGED <<prog, hw, env, hist>>

\* wait_buffer_clean: while(buffer->dirty);
get_wait ==
  /\ fg.pc = "get_wait" /\ FgRuns
  /\ rx_buffer.dirty = 0
  /\ fg' = [fg EXCEPT !.pc = "get_read"]
  /\ UNCHANGED <<prog, hw, env, hist>>

\* my_data = rx_buffer.data[0]
get_read ==
  /\ fg.pc = "get_read" /\ FgRuns
  /\ fg' = [fg EXCEPT !.pc = "get_dirty", !.my_data = rxd[1]]
  /\ UNCHANGED <<prog, hw, env, hist>>

\* rx_buffer.dirty = 1; return my_data
get_dirty ==
  /\ fg.pc = "get_dirty" /\ FgRuns
  /\ rx_buffer' = [rx_buffer EXCEPT !.dirty = 1]
  /\ fg' = Return(fg, "none", fg.my_data)
  /\ got' = Append(got, fg.my_data)
  /\ UNCHANGED <<connection_state, tx_buffer, rx_bit_counter, tx_bit_counter,
                 rx_byte, tx_byte, rx_phase, tx_phase, rx_sample_countdown,
                 rx_start_bit_timecount, rxd, txd, hw, env,
                 accepted, emitted, wire, txframe, committed, offered,
                 rxctl, removed, isr_since_test,
                 capture_ticks>>

(***************************************************************************)
(* Specifications                                                          *)
(***************************************************************************)
\* a caller that switches receive on before any traffic, or never
enable_receive_first == NoTraffic /\ serial_enable_receive

\* transmit side alone
NextTx ==
  \/ serial_initialise
  \/ call_put_char \/ call_send_data
  \/ acquire_set \/ put_test
  \/ put_store \/ put_store2 \/ release
  \/ Tick

SpecTx == InitTx /\ [][NextTx]_vars

\* initialisation with a configuration passed by the caller, called again
\* after it has failed or succeeded
NextCfg == serial_initialise_config

SpecCfg == InitTx /\ [][NextCfg]_vars

\* transmit side with a caller that may call serial_put_char before
\* serial_initialise
NextCold ==
  \/ serial_initialise
  \/ call_put_char_early \/ call_put_char
  \/ acquire_set \/ put_test
  \/ put_store \/ put_store2 \/ release
  \/ Tick

SpecCold == InitTx /\ [][NextCold]_vars

\* receive side alone, fed by the external transmitter; the caller switches
\* receive on before the first frame or never, and takes bytes with
\* serial_data_pending and serial_get_char
NextRx ==
  \/ serial_initialise
  \/ enable_receive_first
  \/ call_data_pending \/ call_get_char
  \/ pending_test \/ pending_wait \/ pending_read
  \/ get_wait \/ get_read \/ get_dirty
  \/ PCINT0 \/ Tick
  \/ ExtStart \/ ExtBit

SpecRx == InitRx /\ [][NextRx]_vars

\* receive side under well-formed traffic: the transmitter sends up to
\* MaxOvFrames good frames, more than the RX buffer holds
InitOv == InitCommon /\ wiring = "external" /\ ext = ExtIdle(MaxOvFrames)

NextOv ==
  \/ serial_initialise
  \/ enable_receive_first
  \/ call_data_pending \/ call_get_char
  \/ pending_test \/ pending_wait \/ pending_read
  \/ get_wait \/ get_read \/ get_dirty
  \/ PCINT0 \/ Tick
  \/ ExtStartGood \/ ExtBit

SpecOv == InitOv /\ [][NextOv]_vars

\* a caller that switches receive off once, at any moment
disable_receive_once == rxctl \in {"never", "on"} /\ serial_disable_receive

\* and on again once, at any later moment
enable_receive_again == rxctl = "off" /\ serial_enable_receive

\* receive control: the caller switches receive on before the first frame
\* or not, off once and then on again, while the transmitter sends good
\* frames
NextCtl ==
  \/ serial_initialise
  \/ enable_receive_first
  \/ disable_receive_once \/ enable_receive_again
  \/ PCINT0 \/ Tick
  \/ ExtStartGood \/ ExtBit

SpecCtl == InitRx /\ [][NextCtl]_vars

\* loopback, the RX pin wired to the TX pin: the caller switches receive on
\* before its first byte or never, sends with serial_put_char and takes
\* bytes with serial_data_pending and serial_get_char
NextLoop ==
  \/ serial_initialise
  \/ enable_receive_first
  \/ call_put_char
  \/ acquire_set \/ put_test
  \/ put_store \/ put_store2 \/ release
  \/ call_data_pending \/ call_get_char
  \/ pending_test \/ pending_wait \/ pending_read
  \/ get_wait \/ get_read \/ get_dirty
  \/ PCINT0 \/ Tick

SpecLoop == InitLoop /\ [][NextLoop]_vars

\* Timer1 counts one timer clock; in CTC mode it is cleared after the count
\* that equals the compare register
Timer1Counts ==
  /\ timer_running /\ ~hung
  /\ tcnt' = IF tcnt = OCR1A THEN 0 ELSE tcnt + 1
  /\ TCNT1' = IF tcnt' < sample_offset_treshold[speed + 1] THEN "lo"
                                                           ELSE "hi"
  /\ UNCHANGED <<prog, timer_running, pcie, pcmsk, pcif, iflag, tx_pin,
                 hung, oob, speed, OCR1A, DDRB, PORTB, my_config,
                 fg, env, hist>>

\* the timer set up by serial_initialise, for each baud index the library
\* can be built for
InitTimer ==
  /\ InitMachine /\ speed \in 0..(NUM_SPEED - 1)
  /\ wiring = "external" /\ ext = ExtIdle(0)

NextTimer == serial_initialise \/ Timer1Counts

SpecTimer == InitTimer /\ [][NextTimer]_vars

TypeOK ==
  /\ tx_phase \in {0, 1} /\ rx_phase \in {0, 1}
  /\ tx_pin \in {0, 1} /\ ext_line \in {0, 1}
  /\ rx_byte \in 0..255 /\ tx_byte \in 0..255
  /\ rx_bit_counter \in 0..255 /\ tx_bit_counter \in 0..255
  /\ rx_sample_countdown \in 0..255
  /\ tx_buffer.top \in 0..65535 /\ rx_buffer.top \in 0..65535

(***************************************************************************)
(* Properties of the transmit side                                         *)
(***************************************************************************)
\* number of occurrences of b in the sequence s
Count(s, b) == Cardinality({i \in DOMAIN s : s[i] = b})

\* nothing is left to transmit: no call in progress, TX buffer empty, no
\* frame on the pin
TxQuiet ==
  /\ fg.pc = "idle" /\ tx_buffer.top = 0 /\ ~wire.busy
  /\ ~connection_state_is(connection_state,
        SERIAL_SENT_START_BIT \cup SERIAL_SENDING_DATA)

\* C2: every byte put_char accepted is emitted as exactly one complete
\* frame.  Stated on finite runs: once nothing is left to transmit, every
\* byte value has been emitted as often as it was accepted.
C2_EveryAcceptedByteEmittedOnce ==
  TxQuiet => \A b \in 0..255 : Count(emitted, b) = Count(accepted, b)

\* C3: at every moment the bytes emitted as complete frames are a prefix of
\* the bytes put_char accepted.
C3_EmittedPrefixOfAccepted == IsPrefix(emitted, accepted)

\* C4: from the tick that latches byte b on, the TX pin takes the levels
\* start (low), bit 0 .. bit 7 of b, stop (high), one level every two
\* ticks; and after serial_initialise the pin is high whenever neither
\* SERIAL_SENT_START_BIT nor SERIAL_SENDING_DATA is set.
C4_FrameLevels ==
  /\ txframe.levels # <<>> =>
        /\ IsPrefix(txframe.levels, FrameOf(tx_byte))
        /\ Len(txframe.levels) = 1 + (txframe.ticks \div 2)
  /\ (timer_running
        /\ ~connection_state_is(connection_state,
              SERIAL_SENT_START_BIT \cup SERIAL_SENDING_DATA))
     => tx_pin = 1

\* the ten levels of 0x41 have been driven
C4_Witness ==
  /\ tx_byte = 65
  /\ txframe.levels = <<0, 1, 0, 0, 0, 0, 0, 1, 0, 1>>
  /\ txframe.ticks = 18

\* the step on which serial_put_char returns
PutCharReturns == fg.pc = "release" /\ fg'.pc # "release"

\* C9: serial_put_char returns SERIAL_OK exactly when top was below
\* TX_BUFFER_SIZE as it took the lock; then the byte is stored at index top
\* and top has grown by one; on SERIAL_ERROR top and the stored bytes are
\* as they were; either way the lock is clear on return.
C9_PutCharContract ==
  [][PutCharReturns =>
       /\ tx_buffer'.lock = 0
       /\ (fg.rc = SERIAL_OK) <=> (fg.top0 < TX_BUFFER_SIZE)
       /\ fg.rc = SERIAL_OK =>
             /\ tx_buffer'.top = fg.top0 + 1
             /\ txd' = [fg.mem0 EXCEPT ![fg.top0 + 1] = fg.data]
       /\ fg.rc # SERIAL_OK =>
             /\ fg.rc = SERIAL_ERROR
             /\ tx_buffer'.top = fg.top0
             /\ txd' = fg.mem0]_vars

\* serial_put_char has returned SERIAL_ERROR on a full buffer after
\* accepting TX_BUFFER_SIZE bytes
C9_Witness ==
  /\ fg.pc = "idle" /\ fg.last = "put_char" /\ fg.rc = SERIAL_ERROR
  /\ tx_buffer.top = TX_BUFFER_SIZE /\ tx_buffer.lock = 0
  /\ Len(accepted) = TX_BUFFER_SIZE

\* the step on which serial_send_data returns
SendDataReturns == fg.op = "send_data" /\ fg'.pc = "idle"

C5_GoodFrameCommitted ==
  (ext.done /\ ext.good /\ ext.pre) =>
     /\ Len(committed) = ext.base + 1
     /\ committed[ext.base + 1] = ext.byte
     /\ RxSubstateIdle

\* the step on which serial_data_pending returns
DataPendingReturns == fg.op = "data_pending" /\ fg'.pc = "idle"

\* the step on which serial_get_char returns
GetCharReturns == fg.op = "get_char" /\ fg'.pc = "idle"

\* the first frame on the RX pin was a good frame of 0xAA and has ended;
\* ctl says whether serial_enable_receive was called before it
FirstFrameIsAA(ctl) ==
  /\ ext.done /\ ext.good /\ ext.byte = 170
  /\ ext.left = MaxFrames - 1
  /\ rxctl = ctl

\* after that frame serial_data_pending returns 1, serial_get_char returns
\* 0xAA and serial_data_pending then returns 0
AfterFrameAA(ctl) ==
  FirstFrameIsAA(ctl) =>
     /\ (DataPendingReturns /\ got = <<>>) => fg'.n = 1
     /\ (GetCharReturns /\ got = <<>>) => fg'.n = 170
     /\ (DataPendingReturns /\ Len(got) = 1) => fg'.n = 0

\* C6 as amended: after serial_initialise and serial_enable_receive, a good
\* frame of 0xAA makes serial_data_pending return 1, serial_get_char return
\* 0xAA and serial_data_pending return 0.
C6_FrameAfterEnableReceive == [][AfterFrameAA("on")]_vars

\* C6 as stated: the same after serial_initialise alone, without
\* serial_enable_receive.
C6_FrameWithoutEnableReceive == [][AfterFrameAA("never")]_vars

\* the three calls have returned 1, 0xAA and 0 after the frame
C6_Witness ==
  /\ FirstFrameIsAA("on")
  /\ committed = <<170>> /\ got = <<170>>
  /\ fg.pc = "idle" /\ fg.last = "data_pending" /\ fg.n = 0

\* C7: the bytes serial_get_char has returned, each call made after
\* serial_data_pending returned a count above 0, are the first bytes that
\* store_data stored, in the order it stored them.
C7_GetCharInCommitOrder == IsPrefix(got, committed)

\* two different bytes have been returned
C7_Witness ==
  /\ Len(got) = 2 /\ got[1] # got[2]
  /\ fg.pc = "idle" /\ fg.last = "get_char"

\* C8: serial_data_pending returns the number of bytes store_data has
\* stored minus the number of serial_get_char calls that have returned.
C8_DataPendingCount ==
  [][DataPendingReturns => fg'.n = Len(committed) - Len(got)]_vars

\* serial_data_pending has returned 1 after two bytes were stored and one
\* was taken
C8_Witness ==
  /\ fg.pc = "idle" /\ fg.last = "data_pending" /\ fg.n = 1
  /\ Len(committed) = 2 /\ Len(got) = 1

\* C11: a frame whose stop-bit position is sampled low appends nothing to
\* the RX buffer, and the good frame of byte b that follows it is stored as
\* exactly b.  The first frame is one the receiver takes from its start bit
\* with rx_bit_counter at 0, so that its stop-bit position is what the
\* receiver samples as the stop bit.
C11_FramingErrorThenGoodFrame ==
  /\ (ext.done /\ ~ext.good /\ ext.pre /\ ext.prev # "break") =>
        Len(committed) = ext.base
  /\ (ext.done /\ ext.good /\ ext.prev = "break" /\ ext.prevpre) =>
        /\ Len(committed) = ext.base + 1
        /\ committed[ext.base + 1] = ext.byte

(***************************************************************************)
(* Receive overflow                                                        *)
(***************************************************************************)
Overflow(cs) == connection_state_is(cs, SERIAL_RECEIVE_OVERFLOW)

\* the step is a tick whose RX section samples a high stop bit
StopBitHigh ==
  /\ ~connection_state_is(connection_state, SERIAL_RECEIVED_START_BIT)
  /\ connection_state_is(connection_state, SERIAL_RECEIVING_DATA)
  /\ rx_phase = 1 /\ rx_bit_counter = 8 /\ RxPin = 1
  /\ rx_phase' = 0

\* C12: the overflow bit is set by a step exactly when that step is a tick
\* that samples a high stop bit while rx_buffer.top is RX_BUFFER_SIZE; the
\* byte of that frame is not stored, and top and the stored bytes are left
\* as they were (if serial_get_char has set dirty, the bottom handler of the
\* same tick then takes the oldest byte out as usual).
C12_OverflowIffCommitWhenFull ==
  [][/\ (~Overflow(connection_state) /\ Overflow(connection_state')) =>
          (StopBitHigh /\ rx_buffer.top = RX_BUFFER_SIZE)
     /\ (StopBitHigh /\ rx_buffer.top = RX_BUFFER_SIZE) =>
          /\ Overflow(connection_state')
          /\ committed' = committed
          /\ IF rx_buffer.dirty = 0
             THEN rx_buffer'.top = rx_buffer.top /\ rxd' = rxd
             ELSE /\ rx_buffer'.top = rx_buffer.top - 1
                  /\ \A i \in 1..(rx_buffer.top - 1) : rxd'[i] = rxd[i + 1]
     /\ (StopBitHigh /\ rx_buffer.top < RX_BUFFER_SIZE) =>
          /\ Overflow(connection_state') = Overflow(connection_state)
          /\ committed' = Append(committed, rx_byte)]_vars

\* the third of three frames found the RX buffer full and was dropped
C12_Witness ==
  /\ Overflow(connection_state)
  /\ ext.done /\ ext.base = RX_BUFFER_SIZE
  /\ Len(committed) = RX_BUFFER_SIZE /\ rx_buffer.top = RX_BUFFER_SIZE
  /\ SubSeq(rxd, 1, RX_BUFFER_SIZE) = committed

\* C13: once the overflow bit is set, every step (tick, pin change
\* interrupt, API call) leaves it set; and a good frame that starts with the
\* overflow bit set, after serial_get_char has made room, is stored.
C13_OverflowStickyReceptionContinues ==
  [][/\ Overflow(connection_state) => Overflow(connection_state')
     /\ (ext'.done /\ ext'.good /\ ext'.ov /\ ext'.pre) =>
          /\ Len(committed') = ext'.base + 1
          /\ committed'[ext'.base + 1] = ext'.byte
          /\ Overflow(connection_state')]_vars

\* a frame that started after the overflow, with room made by
\* serial_get_char, has been stored
C13_Witness ==
  /\ Overflow(connection_state)
  /\ ext.done /\ ext.good /\ ext.ov /\ ext.pre
  /\ Len(got) >= 1
  /\ Len(committed) = RX_BUFFER_SIZE + 1

\* C14: with serial_get_char called only after serial_data_pending returned
\* a count above 0, rx_buffer.top stays within 0..RX_BUFFER_SIZE.
C14_RxTopInRange == rx_buffer.top \in 0..RX_BUFFER_SIZE

\* a frame has arrived at a full RX buffer, and top is still RX_BUFFER_SIZE
C14_Witness ==
  /\ rx_buffer.top = RX_BUFFER_SIZE
  /\ Overflow(connection_state)
  /\ ext.done /\ ~ext.room

\* C19: with receive switched on, two good frames back to back, the second
\* start edge one bit time after the first stop bit begins, each starting
\* with room in the RX buffer, are both stored, in order, with their bytes.
C19_BackToBackFrames ==
  (/\ ext.done /\ ext.good /\ ext.b2b /\ ext.room
   /\ ext.prev = "good" /\ ext.prevpre /\ rxctl = "on")
  => /\ Len(committed) = ext.base + 1
     /\ ext.base >= 1
     /\ committed[ext.base] = ext.prevbyte
     /\ committed[ext.base + 1] = ext.byte

\* 0x41 and 0xAA, sent back to back, are the two bytes stored
C19_Witness ==
  /\ ext.done /\ ext.b2b /\ rxctl = "on"
  /\ ext.prevbyte = 65 /\ ext.byte = 170
  /\ committed = <<65, 170>>

(***************************************************************************)
(* Receive control                                                         *)
(***************************************************************************)
\* the last receive control call was serial_enable_receive
ReceiveOn == rxctl \in {"on", "other"}

\* C15: a frame that begins after serial_disable_receive has returned and
\* before the next serial_enable_receive has no start bit captured and no
\* byte stored, whatever the receiver was doing when serial_disable_receive
\* was called; a good frame that begins after serial_enable_receive is
\* stored.
C15_DisableReceiveHonoured ==
  /\ (ext.ctl = "off" /\ rxctl = "off" /\ (ext.busy \/ ext.done)) =>
        /\ Len(committed) = ext.base
        /\ RxSubstateIdle
  /\ (ext.done /\ ext.good /\ ext.ctl = rxctl /\ ReceiveOn /\ ext.room) =>
        /\ Len(committed) = ext.base + 1
        /\ committed[ext.base + 1] = ext.byte

(***************************************************************************)
(* Properties of serial_initialise and of calls made before it             *)
(***************************************************************************)
\* a call of serial_initialise returns in this step
InitialiseReturns ==
  fg.pc = "idle" /\ fg'.pc = "idle" /\ fg'.last = "initialise"

\* C16: a call of serial_initialise that returns SERIAL_ERROR leaves the
\* connection state as it was (SERIAL_NOT_INITIALISED stays so) and changes
\* none of the pin direction and level registers, the data pointers of the
\* two buffers, the timer, and the interrupt enables.
C16_FailedInitialiseChangesNothing ==
  [][(InitialiseReturns /\ fg'.rc = SERIAL_ERROR) =>
       /\ connection_state' = connection_state
       /\ rx_buffer'.data = rx_buffer.data
       /\ tx_buffer'.data = tx_buffer.data
       /\ UNCHANGED <<DDRB, PORTB, tx_pin, my_config>>
       /\ UNCHANGED <<timer_running, TCNT1, pcie, pcmsk, iflag>>]_vars

\* C17: a call of serial_initialise made when an earlier call has returned
\* SERIAL_OK returns SERIAL_ERROR and changes nothing of the program's
\* state (connection state, both buffers, counters, phases) nor of the
\* registers (pins, timer, interrupt enables).
C17_SecondInitialiseChangesNothing ==
  [][(InitialiseReturns /\ fg' # fg /\ Initialised) =>
       /\ fg'.rc = SERIAL_ERROR
       /\ UNCHANGED <<prog, hw>>]_vars

\* C17 witness: serial_initialise has returned SERIAL_ERROR with the timer
\* running, a frame sent and a byte waiting in the TX buffer.
C17_Witness ==
  /\ fg.pc = "idle" /\ fg.last = "initialise" /\ fg.rc = SERIAL_ERROR
  /\ timer_running /\ connection_state # SERIAL_NOT_INITIALISED
  /\ Len(emitted) >= 1 /\ tx_buffer.top >= 1
  /\ tx_buffer.data = "txd" /\ TX_PIN \in DDRB

\* C18: a call of serial_put_char made while the connection state is
\* SERIAL_NOT_INITIALISED returns SERIAL_ERROR and has stored nothing
\* through tx_buffer.data.
C18_PutCharBeforeInitialise ==
  [][(PutCharReturns /\ connection_state = SERIAL_NOT_INITIALISED) =>
       /\ fg.rc = SERIAL_ERROR
       /\ ~oob']_vars

(***************************************************************************)
(* The TX_BUFFER_LOCKED branch                                             *)
(***************************************************************************)
\* of the TX bits only SERIAL_TX_BUFFER_LOCKED is set
TxLockedOnly(cs) ==
  /\ connection_state_is(cs, SERIAL_TX_BUFFER_LOCKED)
  /\ ~connection_state_is(cs, SERIAL_SENT_START_BIT \cup SERIAL_SENDING_DATA)

\* C20: a TX bit event that finds only SERIAL_TX_BUFFER_LOCKED set and the
\* TX buffer unlocked takes one byte out of the TX buffer and clears
\* SERIAL_TX_BUFFER_LOCKED, so that the next TX bit event starts the next
\* byte or finds nothing to send.
C20_LockedRetryShiftsOnce ==
  [][(/\ TxLockedOnly(connection_state)
      /\ tx_phase = 1 /\ tx_phase' = 0
      /\ tx_buffer.lock = 0 /\ tx_buffer.top >= 1) =>
       /\ tx_buffer'.top = tx_buffer.top - 1
       /\ ~connection_state_is(connection_state', SERIAL_TX_BUFFER_LOCKED)
       /\ ~connection_state_is(connection_state',
              SERIAL_SENT_START_BIT \cup SERIAL_SENDING_DATA)]_vars

(***************************************************************************)
(* Invariants of the TX buffer                                             *)
(***************************************************************************)
\* C21: tx_buffer.top is at least 0 and at most TX_BUFFER_SIZE in every
\* reachable state, however serial_put_char and serial_send_data interleave
\* with the tick ISR.
C21_TxTopInRange == tx_buffer.top \in 0..TX_BUFFER_SIZE

\* serial_put_char is between the two stores of
\* tx_buffer.data[(tx_buffer.top)++] = data
InPutStore == fg.pc = "put_store2"

\* C22: the number of bytes serial_put_char has stored equals the number
\* of shift_buffer_down(&tx_buffer) calls that returned SERIAL_OK plus
\* tx_buffer.top, in every reachable state outside the store statement of
\* serial_put_char.
C22_AcceptedIsRemovedPlusTop ==
  ~InPutStore => Len(accepted) = removed + tx_buffer.top

(***************************************************************************)
(* The advisory lock                                                       *)
(***************************************************************************)
\* serial_put_char is between acquire_buffer_lock and release_buffer_lock
HoldsTxLock == fg.pc \in {"put_test", "put_store", "put_store2", "release"}

\* an interrupt service routine runs in this step: the foreground and the
\* transmitter stand still
IsrStep == fg' = fg /\ ext_line' = ext_line /\ wiring' = wiring

\* the step is a run of ISR(TIM1_COMPA_vect)
TickStep == tx_phase' # tx_phase

\* the TX bit event of the stop bit
StopBitEvent ==
  /\ connection_state_is(connection_state, SERIAL_SENDING_DATA)
  /\ ~connection_state_is(connection_state, SERIAL_SENT_START_BIT)
  /\ tx_phase = 1 /\ tx_bit_counter = 8

\* C23: while serial_put_char holds the lock of the TX buffer, a run of an
\* interrupt service routine changes neither tx_buffer.top nor a byte of
\* the TX buffer; the shift_buffer_down of the stop bit returns
\* SERIAL_ERROR then, removes nothing, and the connection state goes to
\* SERIAL_TX_BUFFER_LOCKED.
C23_NoShiftWhileLockHeld ==
  [][(HoldsTxLock /\ (TickStep \/ IsrStep)) =>
       /\ tx_buffer' = tx_buffer
       /\ txd' = txd
       /\ removed' = removed
       /\ (TickStep /\ StopBitEvent) =>
             connection_state_is(connection_state', SERIAL_TX_BUFFER_LOCKED)
      ]_vars

\* C23 witness: serial_put_char holds the lock, the stop bit has been driven
\* and every shift_buffer_down so far has found the lock set.
C23_Witness ==
  /\ HoldsTxLock /\ tx_buffer.lock = 1
  /\ connection_state_is(connection_state, SERIAL_TX_BUFFER_LOCKED)
  /\ removed = 0 /\ tx_buffer.top >= 1 /\ tx_pin = 1
  /\ Len(emitted) = 1

\* a shift_buffer_down still in progress would be seen by the foreground
\* as a set lock; the foreground is about to execute cli(); lock = 1; sei()
AboutToSetLock == fg.pc = "acquire_set"

\* C24 as stated: no ISR runs between the read of while(buffer->lock) that
\* finds the lock clear and the store buffer->lock = 1.
C24_TestAndSetAtomic ==
  [][AboutToSetLock => ~(TickStep \/ IsrStep)]_vars

\* C24: the store buffer->lock = 1 is executed with interrupts disabled; an
\* ISR may run between the read that finds the lock clear and that store,
\* and every ISR that runs there and returns leaves the lock clear, so the
\* store finds the lock as the read saw it and changes nothing else.
C24_LockStillClearWhenSet ==
  [][/\ (AboutToSetLock /\ (TickStep \/ IsrStep) /\ ~hung') =>
          /\ tx_buffer'.lock = 0
          /\ AboutToSetLock'
     /\ (AboutToSetLock /\ ~AboutToSetLock') =>
          /\ tx_buffer.lock = 0
          /\ tx_buffer' = [tx_buffer EXCEPT !.lock = 1]
          /\ txd' = txd /\ connection_state' = connection_state
    ]_vars

\* C24 witness: the lock has been set after an ISR ran between the read
\* and the store, in a run in which a byte has been shifted out.
C24_Witness ==
  /\ fg.pc = "put_test" /\ isr_since_test
  /\ tx_buffer.lock = 1 /\ removed >= 1
  /\ fg.top0 = tx_buffer.top

\* C25: a run of an ISR that returns leaves the lock of each buffer as it
\* found it: it does not return with a lock it set, and it does not clear
\* the lock serial_put_char holds; and the lock of the RX buffer is clear
\* in every state in which the foreground or an ISR can run.
C25_IsrLeavesLocks ==
  [][/\ rx_buffer.lock = 0
     /\ ~hung' => rx_buffer'.lock = 0
     /\ ((TickStep \/ IsrStep) /\ ~hung') =>
          /\ tx_buffer'.lock = tx_buffer.lock
          /\ rx_buffer'.lock = rx_buffer.lock
    ]_vars

\* C25 witness: serial_put_char holds the lock of the TX buffer, the tick
\* ISR has tried to shift the TX buffer and has stored a received byte.
C25_Witness ==
  /\ HoldsTxLock /\ tx_buffer.lock = 1 /\ rx_buffer.lock = 0
  /\ connection_state_is(connection_state, SERIAL_TX_BUFFER_LOCKED)
  /\ Len(committed) >= 1 /\ rx_buffer.top >= 1

(***************************************************************************)
(* Invariants of the connection state and of the counters                  *)
(***************************************************************************)
\* C26: SERIAL_RECEIVED_START_BIT and SERIAL_RECEIVING_DATA are never set
\* together, whatever the order of line edges, ticks and calls of
\* serial_enable_receive and serial_disable_receive.
C26_OneRxSubstate ==
  ~(/\ connection_state_is(connection_state, SERIAL_RECEIVED_START_BIT)
    /\ connection_state_is(connection_state, SERIAL_RECEIVING_DATA))

\* the bits of the TX substates
TxBits ==
  SERIAL_SENT_START_BIT \cup SERIAL_SENDING_DATA
     \cup SERIAL_TX_BUFFER_LOCKED

\* C27: at most one of SERIAL_SENT_START_BIT, SERIAL_SENDING_DATA and
\* SERIAL_TX_BUFFER_LOCKED is set, and the TX half of the tick ISR leaves
\* every other bit of the connection state as the RX half left it.
C27_OneTxSubstate ==
  [][/\ Cardinality(connection_state \cap TxBits) <= 1
     /\ Cardinality(connection_state' \cap TxBits) <= 1
     /\ TickStep =>
          connection_state' \ TxBits =
             TIM1_COMPA_RX(Machine, RxPin).connection_state \ TxBits
    ]_vars

\* C27 witness: the TX half has moved on to SERIAL_SENDING_DATA, and later
\* to SERIAL_TX_BUFFER_LOCKED, while an RX substate bit is set.
C27_Witness ==
  /\ connection_state_is(connection_state, SERIAL_TX_BUFFER_LOCKED)
  /\ connection_state_is(connection_state, SERIAL_RECEIVING_DATA)
  /\ tx_bit_counter = 8 /\ rx_bit_counter >= 1

\* C28: rx_bit_counter is at most 8, and it is 0 whenever neither
\* SERIAL_RECEIVED_START_BIT nor SERIAL_RECEIVING_DATA is set, whether the
\* last frame ended with a stop bit stored, an overflow or a framing error.
C28_RxBitCounter ==
  /\ rx_bit_counter \in 0..8
  /\ RxSubstateIdle => rx_bit_counter = 0

\* tx_bit_counter against the connection state cs and the levels driven
\* for the current frame: 0 after the start bit, then the number of data
\* bits driven
TxCounterCounts(cs, counter, frame) ==
  /\ counter \in 0..8
  /\ connection_state_is(cs, SERIAL_SENT_START_BIT) =>
        /\ counter = 0
        /\ frame.levels = <<0>>
  /\ connection_state_is(cs, SERIAL_SENDING_DATA) =>
        /\ counter >= 1
        /\ Len(frame.levels) = 1 + counter

\* C29: tx_bit_counter is at most 8; it is 0 while SERIAL_SENT_START_BIT is
\* set and equals the number of data bits driven while SERIAL_SENDING_DATA
\* is set; the TX bit event that finds it at 8 drives the pin high as the
\* tenth level of the frame, leaves the counter at 8 and ends
\* SERIAL_SENDING_DATA.
C29_TxBitCounter ==
  [][/\ TxCounterCounts(connection_state, tx_bit_counter, txframe)
     /\ TxCounterCounts(connection_state', tx_bit_counter', txframe')
     /\ (TickStep /\ StopBitEvent) =>
          /\ tx_pin' = 1
          /\ tx_bit_counter' = 8
          /\ txframe'.levels = Append(txframe.levels, 1)
          /\ Len(txframe'.levels) = 10
          /\ ~connection_state_is(connection_state', SERIAL_SENDING_DATA)
    ]_vars

\* C29 witness: the stop bit of the second frame has been driven.
C29_Witness ==
  /\ tx_bit_counter = 8 /\ tx_pin = 1
  /\ Len(txframe.levels) = 10 /\ Len(emitted) = 2
  /\ ~connection_state_is(connection_state,
        SERIAL_SENT_START_BIT \cup SERIAL_SENDING_DATA)

\* C30: rx_sample_countdown is at most 3, and when it is above 0
\* SERIAL_RECEIVED_START_BIT is set and rx_bit_counter is 0.
C30_RxSampleCountdown ==
  /\ rx_sample_countdown \in 0..3
  /\ rx_sample_countdown > 0 =>
        /\ connection_state_is(connection_state, SERIAL_RECEIVED_START_BIT)
        /\ rx_bit_counter = 0

(***************************************************************************)
(* Timing of the RX samples and of the TX bit events                       *)
(***************************************************************************)
\* the step is a run of ISR(PCINT0_vect)
PcintStep == pcif /\ ~pcif'

\* SERIAL_RECEIVED_START_BIT is set in cs
ReceivedStart(cs) == connection_state_is(cs, SERIAL_RECEIVED_START_BIT)

\* SERIAL_RECEIVING_DATA is set in cs and SERIAL_RECEIVED_START_BIT is not
Receiving(cs) ==
  /\ connection_state_is(cs, SERIAL_RECEIVING_DATA)
  /\ ~connection_state_is(cs, SERIAL_RECEIVED_START_BIT)

\* C31 as stated: the first data bit is sampled on the n-th tick after the
\* capture that set rx_sample_countdown to n.
C31_FirstSampleOnNthTick ==
  [][(TickStep /\ ReceivedStart(connection_state)
        /\ ~ReceivedStart(connection_state')) =>
       capture_ticks' = IF rx_start_bit_timecount = "lo" THEN 2 ELSE 3
    ]_vars

\* C31: ISR(PCINT0_vect) sets rx_sample_countdown to n, 2 for a timer count
\* below the threshold and 3 otherwise; each of the next n ticks finds the
\* countdown above 0 and decrements it without sampling; the tick after
\* them finds it at 0 and samples the first data bit, which is the tick
\* number n + 1 after the capture; from then on every second tick samples.
C31_FirstSampleAfterCountdown ==
  [][/\ (PcintStep /\ RxPin = 0) =>
          /\ rx_sample_countdown' =
                IF rx_start_bit_timecount' = "lo" THEN 2 ELSE 3
          /\ capture_ticks' = 0
          /\ ReceivedStart(connection_state')
     /\ (TickStep /\ ReceivedStart(connection_state)
           /\ rx_sample_countdown > 0) =>
          /\ rx_sample_countdown' = rx_sample_countdown - 1
          /\ ReceivedStart(connection_state')
          /\ rx_bit_counter' = rx_bit_counter /\ rx_byte' = rx_byte
     /\ (TickStep /\ ReceivedStart(connection_state)
           /\ rx_sample_countdown = 0) =>
          /\ Receiving(connection_state')
          /\ rx_bit_counter' = (rx_bit_counter + 1) % 256
          /\ rx_byte' = (IF RxPin = 1 THEN OrBit(rx_byte, rx_bit_counter)
                                      ELSE rx_byte)
          /\ rx_phase' = 0
          /\ capture_ticks' =
                (IF rx_start_bit_timecount = "lo" THEN 2 ELSE 3) + 1
     /\ (TickStep /\ Receiving(connection_state)) =>
          IF rx_phase = 0
          THEN /\ rx_phase' = 1
               /\ rx_bit_counter' = rx_bit_counter /\ rx_byte' = rx_byte
               /\ Receiving(connection_state')
          ELSE /\ rx_phase' = 0
               /\ rx_bit_counter # 8 =>
                     /\ rx_bit_counter' = (rx_bit_counter + 1) % 256
                     /\ Receiving(connection_state')
    ]_vars

\* C31 witness: a start edge late in the timer period; the first data bit
\* was sampled on the fourth tick after it and the second two ticks later.
C31_Witness ==
  /\ Receiving(connection_state)
  /\ rx_start_bit_timecount = "hi" /\ capture_ticks = 4
  /\ rx_bit_counter = 2 /\ rx_phase = 0
  /\ ext.busy /\ ext.late /\ ext.pre

\* what the TX half works on, in the machine m
TxPart(m) ==
  <<m.tx_phase, m.tx_bit_counter, m.tx_byte, m.tx_pin, m.tx_buffer, m.txd,
    m.connection_state \cap TxBits>>

\* C32: every tick toggles tx_phase, so that the TX half acts on every
\* second tick whatever the receiver does; ISR(PCINT0_vect), the RX half
\* and the bottom handler of the tick ISR leave tx_phase, tx_bit_counter,
\* tx_byte, the TX substate bits, the TX pin and the TX buffer alone.
C32_TxIndependentOfRx ==
  [][/\ Tick =>
          LET m1 == TIM1_COMPA_RX(Machine, RxPin)
              m2 == TIM1_COMPA_TX(m1)
          IN  /\ tx_phase' = 1 - tx_phase
              /\ TxPart(m1) = TxPart(Machine)
              /\ ~m2.hung => TxPart(TIM1_COMPA_bottom(m2)) = TxPart(m2)
              /\ tx_bit_counter' = m2.tx_bit_counter
              /\ tx_byte' = m2.tx_byte /\ tx_pin' = m2.tx_pin
              /\ tx_buffer' = m2.tx_buffer /\ txd' = m2.txd
              /\ connection_state' \cap TxBits =
                    m2.connection_state \cap TxBits
     /\ PCINT0 =>
          /\ UNCHANGED <<tx_phase, tx_bit_counter, tx_byte, tx_pin,
                         tx_buffer, txd>>
          /\ connection_state' \cap TxBits = connection_state \cap TxBits
    ]_vars

\* C32 witness: under loopback a start bit has been taken and data bits
\* are being received while the TX half is in the middle of a frame.
C32_Witness ==
  /\ wiring = "loopback"
  /\ Receiving(connection_state) /\ rx_bit_counter >= 2
  /\ connection_state_is(connection_state, SERIAL_SENDING_DATA)
  /\ tx_bit_counter >= 3 /\ tx_phase = 1

\* C33: the head of the RX buffer is advanced by the bottom handler alone
\* and only when dirty is set: no step but a tick changes rx_buffer.top or
\* the stored bytes, the RX and TX halves of a tick never lower top, and
\* the tick lowers it by one exactly when it finds dirty set.  While dirty
\* is set neither ISR(PCINT0_vect) nor the halves of the tick that run
\* before the bottom handler change data[0].  serial_get_char changes only
\* dirty.
C33_HeadAdvancedByBottomHalf ==
  [][/\ ~Tick => rx_buffer'.top = rx_buffer.top /\ rxd' = rxd
     /\ (Tick /\ ~hung') =>
          LET m2 == TIM1_COMPA_TX(TIM1_COMPA_RX(Machine, RxPin))
          IN  /\ m2.rx_buffer.top >= rx_buffer.top
              /\ m2.rx_buffer.dirty = rx_buffer.dirty
              /\ rx_buffer.dirty = 1 => m2.rxd[1] = rxd[1]
              /\ rx_buffer.dirty = 0 =>
                    rx_buffer'.top = m2.rx_buffer.top /\ rxd' = m2.rxd
              /\ (rx_buffer.dirty = 1 /\ m2.rx_buffer.lock = 0) =>
                    /\ m2.rx_buffer.top >= 1
                    /\ rx_buffer'.top = m2.rx_buffer.top - 1
                    /\ rxd'[1] = m2.rxd[2]
     /\ (fg.op = "get_char" /\ fg' # fg) =>
          /\ rx_buffer'.top = rx_buffer.top /\ rxd' = rxd
          /\ rx_buffer'.lock = rx_buffer.lock
    ]_vars

\* C33 witness: two bytes have been taken with serial_get_char and the
\* bottom handler has advanced the head after each, while a third byte is
\* stored and a fourth is being received.
C33_Witness ==
  /\ Len(got) = 2 /\ rx_buffer.dirty = 0 /\ rx_buffer.top = 1
  /\ Receiving(connection_state)

\* C34: a tick that finds dirty set removes exactly one byte from the head
\* of the RX buffer and clears dirty, which is what ends every spin of
\* serial_data_pending and serial_get_char under fair ticks.
C34_TickServesDirty ==
  [][(rx_buffer.dirty = 1 /\ Tick) =>
        /\ rx_buffer'.dirty = 0
        /\ LET m2 == TIM1_COMPA_TX(TIM1_COMPA_RX(Machine, RxPin))
           IN  rx_buffer'.top = m2.rx_buffer.top - 1]_vars

\* C35: whenever the TX substate is SentStart or Sending, the TX buffer
\* holds at least one byte and its head is the byte being sent, whatever
\* serial_put_char calls interleave.
C35_HeadIsByteBeingSent ==
  connection_state_is(connection_state,
                      SERIAL_SENT_START_BIT \cup SERIAL_SENDING_DATA)
    => tx_buffer.top >= 1 /\ txd[1] = tx_byte

\* C36: every read and write of shift_buffer_down uses an index inside
\* the allocated block, for every reachable top, the full buffer included.
\* Under receive-only traffic the shifts of the bottom handler are the
\* only accesses that set oob.
C36_ShiftStaysInBlock == ~oob

\* the tick inspects the stop-bit position: case 8 of the RX switch
StopBitTick ==
  /\ Tick
  /\ Receiving(connection_state) /\ rx_phase = 1 /\ rx_bit_counter = 8

\* C37: the tick that inspects the stop-bit position leaves Receiving for
\* Idle and re-enables the pin change interrupt, whether the stop bit is
\* high or low; from the capture of the start edge until that tick the pin
\* change interrupt stays disabled (no serial_enable_receive is called
\* during traffic here).
C37_StopBitReenablesCapture ==
  [][/\ StopBitTick =>
          /\ ~connection_state_is(connection_state',
                 SERIAL_RECEIVED_START_BIT \cup SERIAL_RECEIVING_DATA)
          /\ pcie'
          /\ RxPin = 0 => /\ committed' = committed
                          /\ connection_state' = connection_state
                                 \ SERIAL_RECEIVING_DATA
     /\ (PCINT0 /\ RxPin = 0) => ReceivedStart(connection_state') /\ ~pcie'
     /\ ((ReceivedStart(connection_state) \/ Receiving(connection_state))
           /\ ~StopBitTick) =>
          /\ ~pcie'
          /\ ReceivedStart(connection_state') \/ Receiving(connection_state')
    ]_vars

\* C37 witness: the stop-bit tick has just found the line low: the byte
\* was dropped, rx_bit_counter is still 8, the receiver is Idle and the
\* pin change interrupt is enabled again.
C37_Witness ==
  /\ rx_bit_counter = 8 /\ rx_phase = 0 /\ committed = <<>>
  /\ ~ReceivedStart(connection_state) /\ ~Receiving(connection_state)
  /\ pcie /\ RxPin = 0

\* C38: ISR(PCINT0_vect) taken while the RX pin reads high records the
\* timer count and changes nothing else: connection state,
\* rx_sample_countdown and the pin change interrupt enable stay as they
\* were, and so do the buffers and the bit state of both directions.
C38_RisingEdgeIgnored ==
  [][(PcintStep /\ RxPin = 1) =>
        /\ rx_start_bit_timecount' = TCNT1
        /\ UNCHANGED <<connection_state, rx_sample_countdown, pcie, pcmsk,
                       rx_buffer, tx_buffer, rxd, txd, rx_bit_counter,
                       tx_bit_counter, rx_byte, tx_byte, rx_phase, tx_phase,
                       tx_pin>>]_vars

\* C38 witness: after a frame whose start edge came late in the timer
\* period, the pin change latched during the frame has been served with
\* the pin high: the snapshot is that of the new interrupt, the receiver
\* is Idle with the interrupt still enabled and the countdown untouched.
C38_Witness ==
  /\ Len(committed) = 1 /\ connection_state = {}
  /\ pcie /\ ~pcif /\ RxPin = 1
  /\ rx_sample_countdown = 255
  /\ ext.late /\ rx_start_bit_timecount = "lo"

\* a / b rounded to the nearest integer
RoundDiv(a, b) == (2 * a + b) \div (2 * b)

\* the compare value for two ticks per bit at baud index i
IdealOcr(i) ==
  RoundDiv(F_CPU, PRESCALER_DIVISOR * 2 * serial_speeds[i + 1]) - 1

Distance(a, b) == IF a >= b THEN a - b ELSE b - a

\* C39: for every baud index the compare value of the table fits in 8
\* bits and is within 1 of round(F_CPU / 8 / (2 * baud)) - 1; it is the
\* value the running timer carries in OCR1A and counts up to.
C39_OcrWithinOne ==
  /\ \A i \in 0..(NUM_SPEED - 1) :
        /\ timer_ocr_values[i + 1] \in 0..255
        /\ Distance(timer_ocr_values[i + 1], IdealOcr(i)) <= 1
  /\ timer_running =>
        /\ OCR1A = timer_ocr_values[speed + 1]
        /\ Distance(OCR1A, IdealOcr(speed)) <= 1
        /\ tcnt <= OCR1A

\* C39 witness: built for 2400 baud, where the table holds 208 and the
\* rounded quotient less one is 207; the timer has counted a full period.
C39_Witness ==
  /\ timer_running /\ speed = 0
  /\ OCR1A = 208 /\ IdealOcr(speed) = 207 /\ tcnt = OCR1A

(***************************************************************************)
(* Properties under loopback                                               *)
(***************************************************************************)
\* nothing is left to transmit, to receive or to take
LoopQuiet ==
  /\ TxQuiet /\ RxSubstateIdle
  /\ rx_buffer.top = 0 /\ rx_buffer.dirty = 0

\* C1: under loopback, with receive switched on before the first byte and
\* no receive overflow, once everything has quiesced the bytes returned by
\* serial_get_char are the bytes serial_put_char accepted, in order.
C1_LoopbackEcho ==
  (/\ wiring = "loopback" /\ rxctl = "on" /\ LoopQuiet
   /\ ~connection_state_is(connection_state, SERIAL_RECEIVE_OVERFLOW))
  => got = accepted

=============================================================================
